---- MODULE Spec2Model ----
(***************************************************************************)
(* Resolution tools of the CodeRabbit MCP server: resolveComment           *)
(* (src/tools/resolve-comment.ts) and resolveConversation                  *)
(* (src/tools/resolve-conversation.ts) driving the GitHubClient            *)
(* (github-client.ts).  One invocation of one tool is modelled; every      *)
(* await on the client is one step, and the answer of the remote side is   *)
(* chosen when the request is made.  Strings built by concatenation are    *)
(* sequences of tokens, so that "message m embeds message e" is "e is a    *)
(* contiguous part of m".                                                  *)
(***************************************************************************)
EXTENDS Integers, Sequences, FiniteSets, TLC

VARIABLES tool, input, pc, prs, idx, located, resolutionMethod,
          resultMessage, log, outcome

vars == <<tool, input, pc, prs, idx, located, resolutionMethod,
          resultMessage, log, outcome>>

(* ------------------------------ bounds --------------------------------- *)

\* pull requests a listing can return
MaxPRs == 2

\* comment identifiers that exist on the remote side
MaxId == 2

\* distinct error statuses the remote side can answer with
NumStatuses == 2

(* ------------------------- the remote side ----------------------------- *)

BotLogin == "coderabbitai[bot]"

Logins == {BotLogin, "octocat"}

CommentIds == 1 .. MaxId

PRNumbers == 1 .. MaxPRs

HttpOk == 200

ErrorStatuses == {400 + i : i \in 1 .. NumStatuses}

\* the comment lists a pull request can hold: comment ids are unique
CommentLists ==
  UNION { { { [id |-> i, login |-> f[i]] : i \in D } : f \in [D -> Logins] }
          : D \in SUBSET CommentIds }

RECURSIVE Distinct(_)
Distinct(s) ==
  IF Len(s) <= 1 THEN TRUE
  ELSE (\A k \in 2 .. Len(s) : s[k] # s[1]) /\ Distinct(Tail(s))

\* the answers of GET /pulls: pull requests in the order the remote sorts them
PRListings ==
  { s \in UNION { [1 .. n -> PRNumbers] : n \in 0 .. MaxPRs } : Distinct(s) }

Responses(bodies) ==
  { [status |-> HttpOk, body |-> b] : b \in bodies }
    \cup { [status |-> s, body |-> <<>>] : s \in ErrorStatuses }

(* ------------------------- GitHubClient -------------------------------- *)

ApiErrorMessage(status) == <<"GitHub API error: ", ToString(status)>>

\* makeRequest: a response that is not ok is thrown as an Error
makeRequest(resp) ==
  IF resp.status = HttpOk
    THEN [ok |-> TRUE, value |-> resp.body, error |-> <<>>]
    ELSE [ok |-> FALSE, value |-> <<>>, error |-> ApiErrorMessage(resp.status)]

Null == [null |-> TRUE]

\* a find whose predicate assigns instead of comparing: any first comment
Find_Assigns(comments, commentId) ==
  IF comments # {} THEN CHOOSE c \in comments : TRUE ELSE Null

\* comments.find(comment => comment.id === commentId)
Find(comments, commentId) ==
  IF \E c \in comments : c.id = commentId
    THEN CHOOSE c \in comments : c.id = commentId
    ELSE Null

\* the catch of findCommentInRecentPRs rewraps a failed listing
SearchFailedMessage(commentId, error) ==
  <<"Failed to search for comment ", ToString(commentId), ": ">> \o error

\* a loop that does not return on a match
ScanContinues_NoReturn(targetComment, i, list) == i < Len(list)

\* the loop over the pull requests goes on to the next one when this one
\* gave no match (or its fetch failed) and there is a next one
ScanContinues(targetComment, i, list) ==
  targetComment = Null /\ i < Len(list)

\* one request made on the remote side, as the call site made it
Call(call, tier, arg, content, status, hit) ==
  [call |-> call, tier |-> tier, arg |-> arg, content |-> content,
   status |-> status, hit |-> hit]

(* --------------------------- the tools --------------------------------- *)

Tools == {"resolveComment", "resolveConversation"}

Resolutions == {"addressed", "wont_fix", "not_applicable"}

\* A numeric argument x is given by its integer part x and its fractional
\* part xFrac, in tenths: 5 stands for a number such as 1.5.
Fractions == {0, 5}

Inputs(t) ==
  IF t = "resolveComment"
    THEN [owner : {"", "acme"}, repo : {"", "widgets"}, commentId : 0 .. MaxId,
          commentIdFrac : Fractions,
          resolution : Resolutions \cup {"later"}, note : BOOLEAN]
    ELSE [owner : {"", "acme"}, repo : {"", "widgets"}, commentId : 0 .. MaxId,
          commentIdFrac : Fractions,
          resolved : BOOLEAN, note : BOOLEAN]

\* z.number().int().positive()
PositiveInt(n, frac) == frac = 0 /\ n > 0

\* a schema whose check of the comment id was left out
SchemaAccepts_NoIdCheck(in) ==
  /\ in.owner # ""
  /\ in.repo # ""
  /\ "resolution" \in DOMAIN in => in.resolution \in Resolutions

\* ResolveCommentSchema / ResolveConversationSchema
SchemaAccepts(in) ==
  /\ in.owner # ""
  /\ in.repo # ""
  /\ PositiveInt(in.commentId, in.commentIdFrac)
  /\ "resolution" \in DOMAIN in => in.resolution \in Resolutions

Raised(error) == [kind |-> "raised", error |-> error]

NoOutcome == [kind |-> "pending"]

Result(t, in, success, message, resolved, method) ==
  IF t = "resolveComment"
    THEN [kind |-> "returned", success |-> success, message |-> message,
          comment_id |-> in.commentId, resolution_method |-> method]
    ELSE [kind |-> "returned", success |-> success, message |-> message,
          comment_id |-> in.commentId, resolved |-> resolved,
          resolution_method |-> method]

NotFoundResult(t, in) ==
  Result(t, in, FALSE,
         <<"Comment with ID ", ToString(in.commentId),
           " not found in recent pull requests">>,
         FALSE, "none")

NotCodeRabbitResult(t, in) ==
  Result(t, in, FALSE,
         <<"Comment ", ToString(in.commentId), " is not from CodeRabbit AI">>,
         FALSE, "none")

\* an outer catch that rethrows
OuterCatch_Rethrows(t, in, error) == Raised(error)

\* an outer catch that reports without the message of the error
OuterCatch_NoMessage(t, in, error) ==
  Result(t, in, FALSE,
         IF t = "resolveComment" THEN <<"Failed to resolve comment: ">>
         ELSE IF in.resolved THEN <<"Failed to resolve conversation: ">>
         ELSE <<"Failed to unresolve conversation: ">>,
         FALSE, "error")

\* the outer catch of either tool
OuterCatch(t, in, error) ==
  Result(t, in, FALSE,
         (IF t = "resolveComment" THEN <<"Failed to resolve comment: ">>
          ELSE IF in.resolved THEN <<"Failed to resolve conversation: ">>
          ELSE <<"Failed to unresolve conversation: ">>) \o error,
         FALSE, "error")

SuccessResult(t, in, message, method) ==
  Result(t, in, TRUE, message, IF t = "resolveComment" THEN FALSE ELSE in.resolved,
         method)

\* the first tier of a tool and the initial value of its resolutionMethod
FirstTier(t, in) ==
  IF t = "resolveComment" THEN "reply"
  ELSE IF in.resolved THEN "apiGet" ELSE "unresolve"

InitialMethod(t) == IF t = "resolveComment" THEN "reply" ELSE "api"

\* the tool without its check of the author
AfterFind_NoAuthorize(t, in, result) ==
  IF result = Null
    THEN [pc |-> "done", outcome |-> NotFoundResult(t, in), located |-> Null,
          method |-> ""]
  ELSE [pc |-> FirstTier(t, in), outcome |-> NoOutcome, located |-> result,
        method |-> InitialMethod(t)]

\* what a tool does with the answer of findCommentInRecentPRs: the control
\* state, the outcome and the locals after the locate and authorize steps
AfterFind(t, in, result) ==
  IF result = Null
    THEN [pc |-> "done", outcome |-> NotFoundResult(t, in), located |-> Null,
          method |-> ""]
  ELSE IF result.comment.login # BotLogin
    THEN [pc |-> "done", outcome |-> NotCodeRabbitResult(t, in),
          located |-> result, method |-> ""]
  ELSE [pc |-> FirstTier(t, in), outcome |-> NoOutcome, located |-> result,
        method |-> InitialMethod(t)]

(* ----------------------------- actions --------------------------------- *)

Init ==
  /\ tool \in Tools
  /\ input \in Inputs(tool)
  /\ pc = "validate"
  /\ prs = <<>>
  /\ idx = 0
  /\ located = Null
  /\ resolutionMethod = ""
  /\ resultMessage = <<>>
  /\ log = <<>>
  /\ outcome = NoOutcome

\* Schema.parse(input), outside the try of the tool
Validate ==
  /\ pc = "validate"
  /\ IF SchemaAccepts(input)
       THEN pc' = "list" /\ outcome' = outcome
       ELSE pc' = "done" /\ outcome' = Raised(<<"ZodError">>)
  /\ UNCHANGED <<tool, input, prs, idx, located, resolutionMethod,
                 resultMessage, log>>

\* findCommentInRecentPRs: the listing of the recent pull requests
ListPullRequests ==
  /\ pc = "list"
  /\ \E resp \in Responses(PRListings) :
       LET r == makeRequest(resp)
           after == AfterFind(tool, input, Null)
       IN
       /\ log' = Append(log, Call("listPullRequests", "locate", 0, "",
                                  resp.status, FALSE))
       /\ IF ~r.ok
            THEN /\ pc' = "done"
                 /\ outcome' = OuterCatch(tool, input,
                        SearchFailedMessage(input.commentId, r.error))
                 /\ UNCHANGED <<prs, idx>>
          ELSE IF r.value = <<>>
            THEN /\ pc' = after.pc
                 /\ outcome' = after.outcome
                 /\ prs' = r.value
                 /\ UNCHANGED idx
          ELSE /\ pc' = "scan"
               /\ prs' = r.value
               /\ idx' = 1
               /\ UNCHANGED outcome
  /\ UNCHANGED <<tool, input, located, resolutionMethod, resultMessage>>

\* findCommentInRecentPRs: one turn of the loop over the pull requests,
\* and, when the search ends here, the locate and authorize steps of the tool
GetPullRequestComments ==
  /\ pc = "scan"
  /\ \E resp \in Responses(CommentLists) :
       LET pr == prs[idx]
           r == makeRequest(resp)
           targetComment == IF r.ok THEN Find(r.value, input.commentId) ELSE Null
           hit == r.ok /\ \E c \in resp.body : c.id = input.commentId
           author == IF hit
                       THEN (CHOOSE c \in resp.body : c.id = input.commentId).login
                       ELSE ""
           result == IF targetComment # Null
                       THEN [comment |-> targetComment, pr |-> pr]
                       ELSE Null
           after == AfterFind(tool, input, result)
       IN
       /\ log' = Append(log, Call("getPullRequestComments", "locate", pr,
                                  author, resp.status, hit))
       /\ IF ScanContinues(targetComment, idx, prs)
            THEN /\ idx' = idx + 1
                 /\ UNCHANGED <<pc, outcome, located, resolutionMethod>>
            ELSE /\ pc' = after.pc
                 /\ outcome' = after.outcome
                 /\ located' = after.located
                 /\ resolutionMethod' = after.method
                 /\ UNCHANGED idx
  /\ UNCHANGED <<tool, input, prs, resultMessage>>

(* ------------------------- resolveComment ------------------------------ *)

PRToken(result) == ToString(result.pr)

\* Strategy 1: the reply comment on the pull request; its catch (Strategy 2)
\* makes no request and records the resolution as tracked
AddResolutionReply ==
  /\ pc = "reply"
  /\ \E resp \in Responses({<<>>}) :
       LET r == makeRequest(resp) IN
       /\ log' = Append(log, Call("addIssueComment", "reply", located.pr,
                                  input.resolution, resp.status, FALSE))
       /\ IF r.ok
            THEN /\ resultMessage' =
                      <<"Added resolution comment to PR #", PRToken(located)>>
                 /\ UNCHANGED resolutionMethod
            ELSE /\ resolutionMethod' = "tracked"
                 /\ resultMessage' =
                      <<"Comment resolution tracked (reply failed: ">>
                        \o r.error \o <<")">>
       /\ outcome' = SuccessResult(tool, input, resultMessage', resolutionMethod')
       /\ pc' = "done"
  /\ UNCHANGED <<tool, input, prs, idx, located>>

(* ----------------------- resolveConversation --------------------------- *)

\* a catch (apiError) that tries the conversation call again
CatchApiError_Retries(in) ==
  [pc |-> IF in.resolved THEN "apiGet" ELSE "unresolve",
   method |-> "fallback"]

\* catch (apiError): the fallback the tool goes to when its first try fails
CatchApiError(in) ==
  [pc |-> IF in.resolved THEN "fbReaction" ELSE "fbComment",
   method |-> "fallback"]

\* after the conversation call returned: the optional note, or the return
AfterApi(in) == IF in.note THEN "note" ELSE "done"

ResolvedMessage(in, result) ==
  IF in.resolved
    THEN <<"Conversation marked as resolved in PR #", PRToken(result)>>
    ELSE <<"Conversation marked as unresolved in PR #", PRToken(result)>>

\* resolveReviewConversation: the GET of the comment and the check of its
\* pull_request_review_id
ResolveReviewConversationGet ==
  /\ pc = "apiGet"
  /\ \E resp \in Responses(BOOLEAN) :
       LET r == makeRequest(resp)
           thrown == ~r.ok \/ ~r.value
           c == CatchApiError(input)
       IN
       /\ log' = Append(log, Call("getComment", "api", input.commentId, "",
                                  resp.status, r.ok /\ r.value))
       /\ IF thrown
            THEN pc' = c.pc /\ resolutionMethod' = c.method
            ELSE pc' = "apiReact" /\ UNCHANGED resolutionMethod
  /\ UNCHANGED <<tool, input, prs, idx, located, resultMessage, outcome>>

\* resolveReviewConversation: the '+1' reaction it answers with, and the
\* statements of the tool that follow its return
ResolveReviewConversationReact ==
  /\ pc = "apiReact"
  /\ \E resp \in Responses({<<>>}) :
       LET r == makeRequest(resp)
           c == CatchApiError(input)
       IN
       /\ log' = Append(log, Call("addReactionToComment", "api",
                                  input.commentId, "+1", resp.status, FALSE))
       /\ IF r.ok
            THEN /\ resultMessage' = ResolvedMessage(input, located)
                 /\ pc' = AfterApi(input)
                 /\ UNCHANGED resolutionMethod
            ELSE /\ pc' = c.pc
                 /\ resolutionMethod' = c.method
                 /\ UNCHANGED resultMessage
       /\ outcome' = IF pc' = "done"
                       THEN SuccessResult(tool, input, resultMessage',
                                          resolutionMethod')
                       ELSE outcome
  /\ UNCHANGED <<tool, input, prs, idx, located>>

\* unresolveReviewConversation: the 'eyes' reaction, its failure rethrown
\* under a fixed message, and the statements of the tool that follow
UnresolveReviewConversation ==
  /\ pc = "unresolve"
  /\ \E resp \in Responses({<<>>}) :
       LET r == makeRequest(resp)
           c == CatchApiError(input)
       IN
       /\ log' = Append(log, Call("addReactionToComment", "api",
                                  input.commentId, "eyes", resp.status, FALSE))
       /\ IF r.ok
            THEN /\ resultMessage' = ResolvedMessage(input, located)
                 /\ pc' = AfterApi(input)
                 /\ UNCHANGED resolutionMethod
            ELSE /\ pc' = c.pc
                 /\ resolutionMethod' = c.method
                 /\ UNCHANGED resultMessage
       /\ outcome' = IF pc' = "done"
                       THEN SuccessResult(tool, input, resultMessage',
                                          resolutionMethod')
                       ELSE outcome
  /\ UNCHANGED <<tool, input, prs, idx, located>>

\* the optional note, posted inside the same try as the conversation call
AddNoteComment ==
  /\ pc = "note"
  /\ \E resp \in Responses({<<>>}) :
       LET r == makeRequest(resp)
           c == CatchApiError(input)
       IN
       /\ log' = Append(log, Call("addIssueComment", "note", located.pr,
                                  "note", resp.status, FALSE))
       /\ IF r.ok
            THEN /\ resultMessage' = resultMessage \o <<" with note: ", "note">>
                 /\ pc' = "done"
                 /\ outcome' = SuccessResult(tool, input, resultMessage',
                                             resolutionMethod)
                 /\ UNCHANGED resolutionMethod
            ELSE /\ pc' = c.pc
                 /\ resolutionMethod' = c.method
                 /\ UNCHANGED <<resultMessage, outcome>>
  /\ UNCHANGED <<tool, input, prs, idx, located>>

\* Fallback 1 (resolve direction only): the '+1' reaction on the comment
FallbackReaction ==
  /\ pc = "fbReaction"
  /\ \E resp \in Responses({<<>>}) :
       LET r == makeRequest(resp) IN
       /\ log' = Append(log, Call("addReactionToComment", "reaction",
                                  input.commentId, "+1", resp.status, FALSE))
       /\ IF r.ok
            THEN /\ resultMessage' =
                      <<"Added positive reaction to indicate resolution (API limitation)">>
                 /\ pc' = "done"
                 /\ outcome' = SuccessResult(tool, input, resultMessage',
                                             resolutionMethod)
            ELSE /\ pc' = "fbComment"
                 /\ UNCHANGED <<resultMessage, outcome>>
  /\ UNCHANGED <<tool, input, prs, idx, located, resolutionMethod>>

\* Fallback 2 (resolve) and the only fallback (unresolve): a comment on the
\* pull request; its failure reaches the outer catch
FallbackComment ==
  /\ pc = "fbComment"
  /\ \E resp \in Responses({<<>>}) :
       LET r == makeRequest(resp) IN
       /\ log' = Append(log, Call("addIssueComment", "comment", located.pr,
                                  "fallback", resp.status, FALSE))
       /\ pc' = "done"
       /\ IF r.ok
            THEN /\ resultMessage' =
                      (IF input.resolved
                         THEN <<"Added resolution comment to PR #",
                                PRToken(located), " (API limitations)">>
                         ELSE <<"Added reopen comment to PR #", PRToken(located)>>)
                 /\ resolutionMethod' = "comment"
                 /\ outcome' = SuccessResult(tool, input, resultMessage',
                                             resolutionMethod')
            ELSE /\ outcome' = OuterCatch(tool, input, r.error)
                 /\ UNCHANGED <<resultMessage, resolutionMethod>>
  /\ UNCHANGED <<tool, input, prs, idx, located>>

Next ==
  \/ Validate
  \/ ListPullRequests
  \/ GetPullRequestComments
  \/ AddResolutionReply
  \/ ResolveReviewConversationGet
  \/ ResolveReviewConversationReact
  \/ UnresolveReviewConversation
  \/ AddNoteComment
  \/ FallbackReaction
  \/ FallbackComment

Spec == Init /\ [][Next]_vars

\* every await of the tool eventually resumes: the remote call returns or
\* fails
FairSpec == Spec /\ WF_vars(Next)

(* ------------------- the invocation, read off the log ------------------ *)

Returned == pc = "done" /\ outcome.kind = "returned"

WriteCalls == {"addIssueComment", "addReactionToComment"}

IsWrite(e) == e.call \in WriteCalls

IsFetch(e) == e.call = "getPullRequestComments"

Failed(e) == e.status # HttpOk

NoWrites == \A i \in 1 .. Len(log) : ~IsWrite(log[i])

ListingOk == Len(log) >= 1 /\ ~Failed(log[1])

\* the fetches of pull-request comments, in the order they were issued
Fetches == SelectSeq(log, IsFetch)

\* no pull request scanned so far holds the comment id
AbsentEverywhere == \A i \in 1 .. Len(log) : ~log[i].hit \/ ~IsFetch(log[i])

\* the scan met the comment id, under this author
HitBy(login) ==
  \E i \in 1 .. Len(log) : IsFetch(log[i]) /\ log[i].hit /\ log[i].content = login

Embeds(e, m) ==
  \E k \in 0 .. Len(m) - Len(e) : SubSeq(m, k + 1, k + Len(e)) = e

(* ------------------------------- C2 ------------------------------------ *)

\* C2: when the listing succeeds and the comment id is in none of the pull
\* requests scanned, no write request is ever made and the invocation ends
\* with success = false and resolution_method 'none'.
C2_NotFoundNoWrite ==
  (ListingOk /\ AbsentEverywhere) =>
     /\ NoWrites
     /\ pc = "done" =>
          /\ outcome.kind = "returned"
          /\ outcome.success = FALSE
          /\ outcome.resolution_method = "none"

\* both listed pull requests were scanned, one of them holding another
\* comment of the bot, and the id was in neither
C2_Witness ==
  /\ pc = "done"
  /\ ListingOk /\ AbsentEverywhere
  /\ Len(Fetches) >= 2
  /\ \E i \in 1 .. Len(log) : IsFetch(log[i]) /\ ~Failed(log[i])
  /\ outcome.resolution_method = "none"

(* ------------------------------- C3 ------------------------------------ *)

\* C3: when the located comment is not written by 'coderabbitai[bot]' the
\* invocation ends at once with success = false and resolution_method 'none'
\* and without a write request; and every write request comes after a
\* successful listing and a scan that met the id under the bot's login.
C3_AuthorizeBeforeWrite ==
  /\ (\E l \in Logins \ {BotLogin} : HitBy(l)) =>
        /\ NoWrites
        /\ pc = "done"
        /\ outcome.kind = "returned"
        /\ outcome.success = FALSE
        /\ outcome.resolution_method = "none"
  /\ \A i \in 1 .. Len(log) :
        IsWrite(log[i]) =>
          /\ ListingOk
          /\ \E j \in 1 .. i - 1 :
               IsFetch(log[j]) /\ log[j].hit /\ log[j].content = BotLogin

\* a comment of another author was located in the second pull request
C3_Witness ==
  /\ pc = "done"
  /\ \E l \in Logins \ {BotLogin} : HitBy(l)
  /\ Len(Fetches) >= 2
  /\ located # Null
  /\ outcome.resolution_method = "none"

(* ------------------------------- C7 ------------------------------------ *)

\* C7: for a validated input, whatever the remote side answers to any
\* request, the invocation never raises: it ends with a returned outcome
\* object, and an outcome whose resolution_method reports a failure ('none'
\* or 'error') has success = false.
C7_NeverRaises ==
  SchemaAccepts(input) =>
    /\ outcome.kind # "raised"
    /\ pc = "done" =>
         /\ outcome.kind = "returned"
         /\ outcome.resolution_method \in {"none", "error"}
              => outcome.success = FALSE

\* the last fallback failed after earlier failures, and the outcome is 'error'
C7_Witness ==
  /\ pc = "done"
  /\ SchemaAccepts(input)
  /\ Len(log) >= 2
  /\ IsWrite(log[Len(log)]) /\ Failed(log[Len(log)])
  /\ \E i \in 1 .. Len(log) : IsFetch(log[i]) /\ Failed(log[i])
  /\ outcome.kind = "returned"
  /\ outcome.resolution_method = "error"

(* ------------------------------- C8 ------------------------------------ *)

\* C8: the k-th fetch of comments is for the k-th pull request of the
\* listing; no fetch follows a fetch whose answer holds the id; and the
\* located result is the comment of that last fetch paired with its pull
\* request.
C8_ScanStopsAtFirstMatch ==
  LET F == Fetches IN
  /\ Len(F) <= Len(prs)
  /\ \A k \in 1 .. Len(F) : F[k].arg = prs[k]
  /\ \A k \in 1 .. Len(F) - 1 : ~F[k].hit
  /\ (located # Null) <=> (\E k \in 1 .. Len(F) : F[k].hit)
  /\ located # Null =>
       /\ located.pr = F[Len(F)].arg
       /\ located.comment.id = input.commentId
       /\ located.comment.login = F[Len(F)].content

\* the first of two listed pull requests held the id: the invocation is over
\* and the second was never fetched
C8_Witness ==
  /\ pc = "done"
  /\ located # Null
  /\ Len(prs) >= 2
  /\ Len(Fetches) = 1
  /\ located.pr = prs[1]

(* ------------------------------ C10 ------------------------------------ *)

TierNames == {"reply", "api", "reaction", "comment"}

\* resolveReviewConversation / unresolveReviewConversation threw
ApiTierFailedBefore(j) ==
  \E i \in 1 .. j - 1 :
     /\ log[i].tier = "api"
     /\ Failed(log[i]) \/ (log[i].call = "getComment" /\ ~log[i].hit)

TierFailedBefore(tier, j) ==
  \E i \in 1 .. j - 1 : log[i].tier = tier /\ Failed(log[i])

Exhausted ==
  /\ pc = "done"
  /\ tool = "resolveConversation"
  /\ ApiTierFailedBefore(Len(log) + 1)
  /\ input.resolved => TierFailedBefore("reaction", Len(log) + 1)
  /\ TierFailedBefore("comment", Len(log) + 1)

\* C10: when the conversation call and every fallback of resolveConversation
\* failed, the outcome is success = false, resolved = false,
\* resolution_method 'error', and its message embeds the error of the comment
\* fallback, the last request, and of no earlier failure that differs from it.
C10_ExhaustionReportsLastError ==
  Exhausted =>
    LET last == log[Len(log)] IN
    /\ last.tier = "comment"
    /\ outcome.kind = "returned"
    /\ outcome.success = FALSE
    /\ outcome.resolved = FALSE
    /\ outcome.resolution_method = "error"
    /\ Embeds(ApiErrorMessage(last.status), outcome.message)
    /\ \A i \in 1 .. Len(log) - 1 :
         (Failed(log[i]) /\ log[i].status # last.status)
           => ~Embeds(ApiErrorMessage(log[i].status), outcome.message)

\* resolve direction, all three tiers failed, the reaction with another
\* status than the comment fallback
C10_Witness ==
  /\ Exhausted
  /\ input.resolved
  /\ \E i \in 1 .. Len(log) - 1 :
       /\ log[i].tier = "reaction"
       /\ Failed(log[i])
       /\ log[i].status # log[Len(log)].status

(* ------------------------------- C1 ------------------------------------ *)

ReplyFailedAt(i) == log[i].tier = "reply" /\ Failed(log[i])

IsReaction(e) == e.call = "addReactionToComment"

\* C1: in an invocation of resolveComment where the reply comment fails and
\* no reaction request fails, a reaction is requested after the failed reply
\* and the outcome is success = true under the reaction tier.
C1_ReplyFailsReactionTier ==
  (/\ pc = "done"
   /\ tool = "resolveComment"
   /\ \E i \in 1 .. Len(log) : ReplyFailedAt(i)
   /\ \A j \in 1 .. Len(log) : IsReaction(log[j]) => ~Failed(log[j]))
  =>
   /\ \E i \in 1 .. Len(log) : \E j \in i + 1 .. Len(log) :
         ReplyFailedAt(i) /\ IsReaction(log[j])
   /\ outcome.kind = "returned"
   /\ outcome.success = TRUE
   /\ outcome.resolution_method = "reaction"

(* ------------------------------- C4 ------------------------------------ *)

\* C4: in an invocation of resolveComment where the reply comment fails and
\* no write request succeeds, the outcome is success = false with
\* resolution_method 'error' and a message that embeds the reply's error.
C4_AllTiersFailError ==
  (/\ pc = "done"
   /\ tool = "resolveComment"
   /\ \E i \in 1 .. Len(log) : ReplyFailedAt(i)
   /\ \A j \in 1 .. Len(log) : IsWrite(log[j]) => Failed(log[j]))
  =>
   /\ outcome.kind = "returned"
   /\ outcome.success = FALSE
   /\ outcome.resolution_method = "error"
   /\ \E i \in 1 .. Len(log) :
        ReplyFailedAt(i) /\ Embeds(ApiErrorMessage(log[i].status), outcome.message)

(* ------------------------------- C5 ------------------------------------ *)

TierRank(tier) ==
  IF tier = "api" THEN 1 ELSE IF tier = "reaction" THEN 2 ELSE 3

ConversationTiers == {"api", "reaction", "comment"}

\* C5: resolveConversation attempts its tiers in the order conversation
\* call, reaction, comment fallback when resolving, and conversation call,
\* comment fallback (no reaction tier) when unresolving; and a request of a
\* later tier is made only once the tier before it has failed.
C5_TierOrder ==
  tool = "resolveConversation" =>
    \A j \in 1 .. Len(log) :
      log[j].tier \in ConversationTiers =>
        /\ \A i \in 1 .. j - 1 :
             log[i].tier \in ConversationTiers
               => TierRank(log[i].tier) <= TierRank(log[j].tier)
        /\ log[j].tier = "reaction" =>
             input.resolved /\ ApiTierFailedBefore(j)
        /\ log[j].tier = "comment" =>
             IF input.resolved THEN TierFailedBefore("reaction", j)
                               ELSE ApiTierFailedBefore(j)

(* ------------------------------- C6 ------------------------------------ *)

TierSucceeded(e) == e.tier \in TierNames /\ IsWrite(e) /\ ~Failed(e)

\* the resolution_method under which each tier is reported
MethodOfTier(tier) ==
  IF tier = "reaction" THEN "fallback" ELSE tier

\* C6: once the request of a tier has succeeded no request of a tier follows
\* it in the invocation, and the outcome is a success whose resolution_method
\* names that tier ('reply' for the reply, 'api' for the conversation call).
C6_StopAtFirstSuccess ==
  \A i \in 1 .. Len(log) :
    TierSucceeded(log[i]) =>
      /\ \A j \in i + 1 .. Len(log) : log[j].tier \notin TierNames
      /\ pc = "done" =>
           /\ outcome.kind = "returned"
           /\ outcome.success = TRUE
           /\ outcome.resolution_method = MethodOfTier(log[i].tier)

(* ------------------------------- C9 ------------------------------------ *)

\* the same write: the same reaction on the same comment, or the same
\* comment body on the same pull request
SameWrite(a, b) ==
  /\ IsWrite(a) /\ IsWrite(b)
  /\ a.call = b.call /\ a.arg = b.arg /\ a.content = b.content

\* C9: within one invocation no write request is made twice, the requests
\* made inside resolveReviewConversation / unresolveReviewConversation
\* included.
C9_NoWriteTwice ==
  \A i \in 1 .. Len(log) : \A j \in i + 1 .. Len(log) :
     ~SameWrite(log[i], log[j])

(***************************************************************************)
(* Review comments: the raw comment of the platform (GitHubComment,        *)
(* index.ts), parseCoderabbitComment (src/tools/get-comments.ts) and the   *)
(* parsing and correlation of getCommentDetails                            *)
(* (get-comment-details.ts).  A comment body is the sequence of its lines; *)
(* a marker never spans two lines, so body.includes(marker) is "some line  *)
(* contains the marker".  An absent or null line anchor is 0: the code     *)
(* reads the anchors only through their truthiness and through "|| 0".     *)
(***************************************************************************)

\* longest comment body, in lines
MaxBodyLines == 2

\* number of distinct line anchors beyond the proximity window
MaxLine == 2

\* most comments in a set given to findRelatedComments
MaxComments == 3

\* Math.abs(currentLine - commentLine) <= 10
ProximityWindow == 10

\* the markers (the emoji is written out by its name)
PotentialIssue == "[warning] Potential issue"
PotentialIssueItalic == "_[warning] Potential issue_"
RefactorSuggestion == "[tools] Refactor suggestion"
RefactorSuggestionItalic == "_[tools] Refactor suggestion_"
Nitpick == "[broom] Nitpick"
Security == "[lock] Security"

(* ------------------------- the text of a body -------------------------- *)

\* longest body with fenced blocks or prose, in lines
MaxTextLines == 5

\* the introductory phrases (the emoji is written out by its name)
AiPromptIntro == "[robot] Prompt for AI Agents"
CommittableIntro == "[memo] Committable suggestion"

\* fence lines: three backticks, bare or followed by a tag (a backtick is
\* written as a tilde)
Fence == "~~~"
FenceSuggestion == "~~~suggestion"
FenceDiff == "~~~diff"
FenceLang == "~~~typescript"

\* the lines that start with three backticks
FenceLines == {Fence, FenceSuggestion, FenceDiff, FenceLang}

\* a resolution indicator
Addressed == "[check] Addressed"

\* other lines: an empty line, a line of markup, lines of prose
Blank == ""
MarkupLine == "<!-- review -->"
Prose == "Fix the bug"
MoreProse == "Use a constant instead"

\* the delimiters of the collapsible sections of a review body
DetailsOpen == "<details>"
DetailsClose == "</details>"
BlockquoteClose == "</blockquote>"

\* the summary tags of the sections of a review body
SummaryNitpick == "<summary>[broom] Nitpick comments (1)</summary>"
SummaryPrompt == "<summary>[robot] Prompt for AI Agents</summary>"
SummaryCommits == "<summary>[inbox] Commits</summary>"
SummaryIgnored ==
  "<summary>[no entry] Files ignored due to path filters (1)</summary>"
SummaryFiles ==
  "<summary>[ledger] Files selected for processing (1)</summary>"

\* the count of actionable comments, and a bullet of the list of files
ActionableLine == "**Actionable comments posted: 9**"
FileBullet == "* ~a/b.js~"

\* the lines that start with '<'
TagLines ==
  {MarkupLine, DetailsOpen, DetailsClose, BlockquoteClose, SummaryNitpick,
   SummaryPrompt, SummaryCommits, SummaryIgnored, SummaryFiles}

\* the lines that hold the phrase that introduces an AI prompt
AiPromptLines == {AiPromptIntro, SummaryPrompt}

\* the lines a body is made of: one per marker, and a line with no marker
BodyLines ==
  {"Consider renaming this variable.", PotentialIssue, PotentialIssueItalic,
   RefactorSuggestion, RefactorSuggestionItalic, Nitpick, Security}

\* the markers that are substrings of a line
MarkersIn(line) ==
  CASE line = PotentialIssueItalic -> {PotentialIssue, PotentialIssueItalic}
    [] line = RefactorSuggestionItalic ->
         {RefactorSuggestion, RefactorSuggestionItalic}
    [] line = SummaryNitpick -> {SummaryNitpick, Nitpick}
    [] OTHER -> {line}

\* body.includes(marker)
includes(body, marker) ==
  \E i \in 1 .. Len(body) : marker \in MarkersIn(body[i])

Bodies == UNION {[1 .. n -> BodyLines] : n \in 0 .. MaxBodyLines}

\* file paths, in the order of localeCompare
Paths == <<"src/a.ts", "src/b.ts">>

\* line anchors: absent (0), line 1, and lines beyond the proximity window
\* of line 1
LineAnchors == {0, 1} \cup {1 + ProximityWindow + d : d \in 0 .. MaxLine - 1}

\* GitHubComment
RawComment(id, login, review, path, line, startLine, body) ==
  [id |-> id, login |-> login, pull_request_review_id |-> review,
   path |-> path, original_line |-> line, original_start_line |-> startLine,
   body |-> body]

\* the classification of parseCoderabbitComment with the security rule
\* tested before the nitpick rule
Classify_SecurityFirst(body) ==
  IF includes(body, PotentialIssue) \/ includes(body, PotentialIssueItalic)
    THEN [severity |-> "warning", category |-> "Potential Issue"]
  ELSE IF includes(body, RefactorSuggestion)
            \/ includes(body, RefactorSuggestionItalic)
    THEN [severity |-> "suggestion", category |-> "Refactor Suggestion"]
  ELSE IF includes(body, Security)
    THEN [severity |-> "error", category |-> "Security"]
  ELSE IF includes(body, Nitpick)
    THEN [severity |-> "info", category |-> "Nitpick"]
  ELSE [severity |-> "info", category |-> "General"]

\* parseCoderabbitComment: severity and category
Classify(body) ==
  IF includes(body, PotentialIssue) \/ includes(body, PotentialIssueItalic)
    THEN [severity |-> "warning", category |-> "Potential Issue"]
  ELSE IF includes(body, RefactorSuggestion)
            \/ includes(body, RefactorSuggestionItalic)
    THEN [severity |-> "suggestion", category |-> "Refactor Suggestion"]
  ELSE IF includes(body, Nitpick)
    THEN [severity |-> "info", category |-> "Nitpick"]
  ELSE IF includes(body, Security)
    THEN [severity |-> "error", category |-> "Security"]
  ELSE [severity |-> "info", category |-> "General"]

\* the classification of getCommentDetails with the refactor-suggestion rule
\* tested before the potential-issue rule
DetailsClassify_RefactorFirst(body) ==
  IF includes(body, RefactorSuggestion)
    THEN [severity |-> "suggestion", category |-> "Refactor Suggestion"]
  ELSE IF includes(body, PotentialIssue)
    THEN [severity |-> "warning", category |-> "Potential Issue"]
  ELSE IF includes(body, Nitpick)
    THEN [severity |-> "info", category |-> "Nitpick"]
  ELSE IF includes(body, Security)
    THEN [severity |-> "error", category |-> "Security"]
  ELSE [severity |-> "info", category |-> "General"]

\* getCommentDetails: severity and category
DetailsClassify(body) ==
  IF includes(body, PotentialIssue)
    THEN [severity |-> "warning", category |-> "Potential Issue"]
  ELSE IF includes(body, RefactorSuggestion)
    THEN [severity |-> "suggestion", category |-> "Refactor Suggestion"]
  ELSE IF includes(body, Nitpick)
    THEN [severity |-> "info", category |-> "Nitpick"]
  ELSE IF includes(body, Security)
    THEN [severity |-> "error", category |-> "Security"]
  ELSE [severity |-> "info", category |-> "General"]

\* parseCoderabbitReviewBodyDetailed: the severity of one comment block
BlockSeverity(block) ==
  IF includes(block, PotentialIssue) \/ includes(block, PotentialIssueItalic)
    THEN "warning"
  ELSE IF includes(block, RefactorSuggestion)
            \/ includes(block, RefactorSuggestionItalic)
    THEN "suggestion"
  ELSE IF includes(block, Nitpick) THEN "info"
  ELSE IF includes(block, Security) THEN "error"
  ELSE "info"

\* a line range that puts the smaller anchor first
lineRange_Reorders(comment) ==
  IF comment.original_start_line # 0 /\ comment.original_line # 0
    THEN IF comment.original_start_line <= comment.original_line
           THEN [start |-> comment.original_start_line,
                 end |-> comment.original_line]
           ELSE [start |-> comment.original_line,
                 end |-> comment.original_start_line]
  ELSE IF comment.original_line # 0
    THEN [start |-> comment.original_line, end |-> comment.original_line]
  ELSE [start |-> 1, end |-> 1]

\* parseCoderabbitComment: lineRange
lineRange(comment) ==
  IF comment.original_start_line # 0 /\ comment.original_line # 0
    THEN [start |-> comment.original_start_line,
          end |-> comment.original_line]
  ELSE IF comment.original_line # 0
    THEN [start |-> comment.original_line, end |-> comment.original_line]
  ELSE [start |-> 1, end |-> 1]

\* a default line range of line 0
DetailsLineRange_FromZero(targetComment) ==
  IF targetComment.original_start_line # 0 /\ targetComment.original_line # 0
    THEN [start |-> targetComment.original_start_line,
          end |-> targetComment.original_line]
    ELSE [start |-> targetComment.original_line,
          end |-> targetComment.original_line]

\* getCommentDetails: lineRange
DetailsLineRange(targetComment) ==
  IF targetComment.original_start_line # 0 /\ targetComment.original_line # 0
    THEN [start |-> targetComment.original_start_line,
          end |-> targetComment.original_line]
  ELSE IF targetComment.original_line # 0
    THEN [start |-> targetComment.original_line,
          end |-> targetComment.original_line]
  ELSE [start |-> 1, end |-> 1]

(* ---------------------- extraction from the text ---------------------- *)

\* the first line of body at or after from that is one of lines; 0 if none
FirstAt(body, from, lines) ==
  IF \E k \in from .. Len(body) : body[k] \in lines
    THEN CHOOSE k \in from .. Len(body) :
           body[k] \in lines /\ \A m \in from .. k - 1 : body[m] \notin lines
    ELSE 0

RECURSIVE trim(_)
\* String.prototype.trim on the joined lines: the empty lines at both ends go
trim(lines) ==
  IF lines = <<>> THEN <<>>
  ELSE IF Head(lines) = Blank THEN trim(Tail(lines))
  ELSE IF lines[Len(lines)] = Blank
    THEN trim(SubSeq(lines, 1, Len(lines) - 1))
  ELSE lines

\* the leftmost match, at or after line from, of
\*   /intro[\s\S]*?opener\n([\s\S]*?)\n```/  (intros = {} when the regular
\* expression starts at the opener): the first intro line, the first line
\* after it that ends with the opener and a line break, and the first line
\* starting with three backticks that leaves at least one line between
MatchBlock(body, from, intros, openers) ==
  LET p == IF intros = {} THEN from - 1 ELSE FirstAt(body, from, intros)
      i == IF intros # {} /\ p = 0 THEN 0 ELSE FirstAt(body, p + 1, openers)
      j == IF i = 0 THEN 0 ELSE FirstAt(body, i + 2, FenceLines)
  IN [found |-> j # 0, open |-> i, close |-> j]

\* match[1].trim(): the captured group of a match, trimmed
Captured(body, m) == [text |-> trim(SubSeq(body, m.open + 1, m.close - 1))]

\* a value that is undefined
Undefined == [undefined |-> TRUE]

\* body.match(/Prompt for AI Agents[\s\S]*?```\n([\s\S]*?)\n```/)
aiPrompt(body) ==
  LET m == MatchBlock(body, 1, AiPromptLines, {Fence})
  IN IF m.found THEN Captured(body, m) ELSE Undefined

\* an extraction that takes the rest of the body when the fence is not closed
committableSuggestion_ToEnd(body) ==
  LET m == MatchBlock(body, 1, {CommittableIntro}, {FenceSuggestion})
  IN IF m.found THEN Captured(body, m)
     ELSE IF m.open # 0
       THEN [text |-> trim(SubSeq(body, m.open + 1, Len(body)))]
     ELSE Undefined

\* body.match(/Committable suggestion[\s\S]*?```suggestion\n([\s\S]*?)\n```/)
committableSuggestion(body) ==
  LET m == MatchBlock(body, 1, {CommittableIntro}, {FenceSuggestion})
  IN IF m.found THEN Captured(body, m) ELSE Undefined

\* the lines the description filter of a comment removes: empty lines, lines
\* with '_' before the warning or tools emoji, lines with the two
\* introductory phrases, lines starting with '<' or with three backticks
DescriptionDrops ==
  {Blank, PotentialIssueItalic, RefactorSuggestionItalic, CommittableIntro}
  \cup AiPromptLines \cup TagLines \cup FenceLines

\* descLines.slice(0, 3)
DescriptionCap == 3

\* descLines.slice(0, 3).join(' ').trim() || 'CodeRabbit suggestion': the
\* joined lines are kept as their sequence
description(body) ==
  LET descLines == SelectSeq(body, LAMBDA line : line \notin DescriptionDrops)
      joined == SubSeq(descLines, 1,
                       IF Len(descLines) < DescriptionCap
                         THEN Len(descLines) ELSE DescriptionCap)
  IN IF joined = <<>> THEN <<"CodeRabbit suggestion">> ELSE joined

\* body.includes of the three resolution indicators
isResolved(body) ==
  \/ includes(body, Addressed)
  \/ includes(body, "[check] Fixed")
  \/ includes(body, "[check] Resolved")

\* getCommentDetails: the same extraction of the AI prompt, written again
DetailsAiPrompt(body) ==
  LET m == MatchBlock(body, 1, AiPromptLines, {Fence})
  IN IF m.found THEN Captured(body, m) ELSE Undefined

\* getCommentDetails: the same extraction of the committable suggestion
DetailsCommittableSuggestion(body) ==
  LET m == MatchBlock(body, 1, {CommittableIntro}, {FenceSuggestion})
  IN IF m.found THEN Captured(body, m) ELSE Undefined

\* getCommentDetails: descLines.slice(0, 3)
DetailsDescriptionCap == 3

\* a description of the details that keeps the lines of markup
DetailsDescription_KeepsMarkup(body) ==
  LET descLines ==
        SelectSeq(body,
                  LAMBDA line : line \notin DescriptionDrops \ TagLines)
      joined == SubSeq(descLines, 1,
                       IF Len(descLines) < DetailsDescriptionCap
                         THEN Len(descLines) ELSE DetailsDescriptionCap)
  IN IF joined = <<>> THEN <<"CodeRabbit suggestion">> ELSE joined

\* getCommentDetails: the same filter and the same cap, written again
DetailsDescription(body) ==
  LET descLines == SelectSeq(body, LAMBDA line : line \notin DescriptionDrops)
      joined == SubSeq(descLines, 1,
                       IF Len(descLines) < DetailsDescriptionCap
                         THEN Len(descLines) ELSE DetailsDescriptionCap)
  IN IF joined = <<>> THEN <<"CodeRabbit suggestion">> ELSE joined

\* getCommentDetails: the same resolution indicators
DetailsIsResolved(body) ==
  \/ includes(body, Addressed)
  \/ includes(body, "[check] Fixed")
  \/ includes(body, "[check] Resolved")

RECURSIVE matchAll(_, _, _, _)
\* body.matchAll(/.../g) with match[1].trim(): the matches from left to
\* right, each search starting where the previous match ended
matchAll(body, from, intros, openers) ==
  LET m == MatchBlock(body, from, intros, openers)
  IN IF m.found
       THEN <<Captured(body, m).text>>
            \o matchAll(body, m.close + 1, intros, openers)
       ELSE <<>>

\* the fixes named by the position of their opening fence in the body
extractFixExamples_DocumentOrder(body) ==
  LET RECURSIVE walk(_)
      walk(from) ==
        LET c == MatchBlock(body, from, {CommittableIntro}, {FenceSuggestion})
            d == MatchBlock(body, from, {}, {FenceDiff, FenceLang})
            m == IF c.found /\ (~d.found \/ c.open <= d.open) THEN c ELSE d
        IN IF m.found
             THEN <<Captured(body, m).text>> \o walk(m.close + 1)
             ELSE <<>>
  IN walk(1)

\* extractFixExamples: the committable suggestions, then the diff blocks,
\* then the blocks tagged with a language
extractFixExamples(body) ==
  matchAll(body, 1, {CommittableIntro}, {FenceSuggestion})
  \o matchAll(body, 1, {}, {FenceDiff})
  \o matchAll(body, 1, {}, {FenceLang})

\* parseCoderabbitComment: the record built from a comment
parseCoderabbitComment(comment) ==
  [id |-> comment.id,
   path |-> comment.path,
   line_range |-> lineRange(comment),
   severity |-> Classify(comment.body).severity,
   category |-> Classify(comment.body).category,
   description |-> description(comment.body),
   ai_prompt |-> aiPrompt(comment.body),
   committable_suggestion |-> committableSuggestion(comment.body),
   is_resolved |-> isResolved(comment.body)]

\* Math.abs
Abs(n) == IF n < 0 THEN -n ELSE n

\* findRelatedComments without the test of the file path
findRelatedComments_AnyPath(currentComment, allComments) ==
  SelectSeq([i \in 1 .. Len(allComments) |->
               IF /\ allComments[i].id # currentComment.id
                  /\ Abs(currentComment.original_line
                           - allComments[i].original_line) <= ProximityWindow
                 THEN allComments[i].id
                 ELSE 0],
            LAMBDA id : id # 0)

\* findRelatedComments without Math.abs: only the comments at most 10 lines
\* above the target, and every comment below it
findRelatedComments_OneSided(currentComment, allComments) ==
  SelectSeq([i \in 1 .. Len(allComments) |->
               IF /\ allComments[i].id # currentComment.id
                  /\ allComments[i].path = currentComment.path
                  /\ currentComment.original_line
                        - allComments[i].original_line <= ProximityWindow
                 THEN allComments[i].id
                 ELSE 0],
            LAMBDA id : id # 0)

RECURSIVE findRelatedComments(_, _)
\* findRelatedComments: the loop over allComments, pushing onto related
findRelatedComments(currentComment, allComments) ==
  IF allComments = <<>> THEN <<>>
  ELSE LET comment == allComments[Len(allComments)]
           related == findRelatedComments(currentComment,
                        SubSeq(allComments, 1, Len(allComments) - 1))
           currentLine == currentComment.original_line
           commentLine == comment.original_line
       IN IF comment.id = currentComment.id THEN related
          ELSE IF /\ comment.path = currentComment.path
                  /\ Abs(currentLine - commentLine) <= ProximityWindow
                 THEN Append(related, comment.id)
                 ELSE related

\* getCommentDetails: the record built from the located comment
commentDetails(targetComment, allPRComments) ==
  [id |-> targetComment.id,
   path |-> targetComment.path,
   line_range |-> DetailsLineRange(targetComment),
   severity |-> DetailsClassify(targetComment.body).severity,
   category |-> DetailsClassify(targetComment.body).category,
   description |-> DetailsDescription(targetComment.body),
   ai_prompt |-> DetailsAiPrompt(targetComment.body),
   committable_suggestion |->
     DetailsCommittableSuggestion(targetComment.body),
   is_resolved |-> DetailsIsResolved(targetComment.body),
   related_comments |-> findRelatedComments(targetComment, allPRComments),
   fix_examples |-> extractFixExamples(targetComment.body)]

(* ----------------------- the body of a review -------------------------- *)

RECURSIVE split(_, _)
\* String.prototype.split at a delimiter that is a line of its own: the runs
\* of lines between the delimiter lines
split(lines, delimiter) ==
  LET k == FirstAt(lines, 1, {delimiter})
  IN IF k = 0
       THEN <<lines>>
       ELSE <<SubSeq(lines, 1, k - 1)>>
            \o split(SubSeq(lines, k + 1, Len(lines)), delimiter)

RECURSIVE flatten(_)
\* the entries pushed block after block, as one list
flatten(lists) ==
  IF lists = <<>> THEN <<>> ELSE Head(lists) \o flatten(Tail(lists))

\* the lines matched by /<summary>(.*?)<\/summary>/
SummaryLines ==
  {SummaryNitpick, SummaryPrompt, SummaryCommits, SummaryIgnored,
   SummaryFiles}

\* summaryMatch[1].trim(): the text between the summary tags of a line
summaryText(line) ==
  CASE line = SummaryNitpick -> "[broom] Nitpick comments (1)"
    [] line = SummaryPrompt -> "[robot] Prompt for AI Agents"
    [] line = SummaryCommits -> "[inbox] Commits"
    [] line = SummaryIgnored ->
         "[no entry] Files ignored due to path filters (1)"
    [] line = SummaryFiles -> "[ledger] Files selected for processing (1)"

\* body.match(/\*\*Actionable comments posted: (\d+)\*\*/) and parseInt
actionableCount(body) ==
  IF FirstAt(body, 1, {ActionableLine}) # 0 THEN 9 ELSE 0

\* body.match of the nitpick count and parseInt
nitpickCount(body) ==
  IF FirstAt(body, 1, {SummaryNitpick}) # 0 THEN 1 ELSE 0

\* line.match of a bullet with a path between backticks
filePathsOf(line) == IF line = FileBullet THEN <<"a/b.js">> ELSE <<>>

\* a list of the files that stops at the first empty line after the header
filesReviewed_ToBlankLine(body) ==
  LET h == FirstAt(body, 1, {SummaryFiles})
      e == IF h = 0 THEN 0 ELSE FirstAt(body, h + 1, {Blank})
      fileLines == IF h = 0 THEN <<>>
                   ELSE SubSeq(body, h + 1, IF e = 0 THEN Len(body) ELSE e - 1)
  IN flatten([i \in 1 .. Len(fileLines) |-> filePathsOf(fileLines[i])])

\* filesReviewed: the bullets of the lines captured after the first line with
\* the header of the files selected for processing, up to the first line
\* whose end is followed by an empty line and a line break, by a line that
\* starts with '<', or by nothing: the lookahead (?=\n\n|\n<|$)
filesReviewed(body) ==
  LET h == FirstAt(body, 1, {SummaryFiles})
      FilesSectionEnds(b, k) ==
        \/ k = Len(b)
        \/ k < Len(b) /\ b[k + 1] \in TagLines
        \/ k + 1 < Len(b) /\ b[k + 1] = Blank
  IN IF h = 0 \/ h = Len(body)
       THEN <<>>
       ELSE LET k == CHOOSE k \in h + 1 .. Len(body) :
                       /\ FilesSectionEnds(body, k)
                       /\ \A m \in h + 1 .. k - 1 : ~FilesSectionEnds(body, m)
                fileLines == SubSeq(body, h + 1, k)
            IN flatten([i \in 1 .. Len(fileLines) |->
                          filePathsOf(fileLines[i])])

\* the AI prompt of a comment block
BlockAiPrompt(block) ==
  LET m == MatchBlock(block, 1, AiPromptLines, {Fence})
  IN IF m.found THEN Captured(block, m) ELSE Undefined

\* the committable suggestion of a comment block
BlockCommittableSuggestion(block) ==
  LET m == MatchBlock(block, 1, {CommittableIntro}, {FenceSuggestion})
  IN IF m.found THEN Captured(block, m) ELSE Undefined

\* block.match of a path with a known extension between backticks
blockFilePath(block) ==
  IF FirstAt(block, 1, {FileBullet}) # 0
    THEN [text |-> <<"a/b.js">>] ELSE Undefined

\* the lines the description filter of a block removes: empty lines, lines
\* with the warning or the tools emoji, lines with the two introductory
\* phrases, lines starting with '<' or with three backticks
BlockDescriptionDrops ==
  {Blank, PotentialIssue, PotentialIssueItalic, RefactorSuggestion,
   RefactorSuggestionItalic, CommittableIntro}
  \cup AiPromptLines \cup TagLines \cup FenceLines

\* descLines.slice(0, 2)
BlockDescriptionCap == 2

\* description.replace of the bold delimiters and of the backticks around
\* inline code
stripMarkup(line) ==
  CASE line = ActionableLine -> "Actionable comments posted: 9"
    [] line = FileBullet -> "* a/b.js"
    [] OTHER -> line

\* a description of a block cut at the cap of a comment
blockDescription_CommentCap(block) ==
  LET descLines ==
        SelectSeq(block, LAMBDA line : line \notin BlockDescriptionDrops)
      joined == SubSeq(descLines, 1,
                       IF Len(descLines) < DescriptionCap
                         THEN Len(descLines) ELSE DescriptionCap)
  IN [i \in 1 .. Len(joined) |-> stripMarkup(joined[i])]

\* descLines.slice(0, 2).join(' ').trim(), the markup then stripped
blockDescription(block) ==
  LET descLines ==
        SelectSeq(block, LAMBDA line : line \notin BlockDescriptionDrops)
      joined == SubSeq(descLines, 1,
                       IF Len(descLines) < BlockDescriptionCap
                         THEN Len(descLines) ELSE BlockDescriptionCap)
  IN [i \in 1 .. Len(joined) |-> stripMarkup(joined[i])]

\* a value of JavaScript that is neither undefined nor the empty string
truthy(value) == value # Undefined /\ value.text # <<>>

\* the body of the loop over the blocks of a section: the entry pushed for
\* one block, if any (the line range of the entry is left out)
blockEntries(category, block) ==
  IF trim(block) = <<>>
    THEN <<>>
    ELSE LET entry == [category |-> category,
                       severity |-> BlockSeverity(block),
                       description |-> blockDescription(block),
                       ai_prompt |-> BlockAiPrompt(block),
                       committable_suggestion |->
                         BlockCommittableSuggestion(block),
                       file_path |-> blockFilePath(block)]
         IN IF /\ entry.description # <<>>
               /\ \/ truthy(entry.ai_prompt)
                  \/ truthy(entry.committable_suggestion)
                  \/ truthy(entry.file_path)
              THEN <<entry>>
              ELSE <<>>

\* a walk that takes a fragment whether or not its section is closed
sectionEntries_Unclosed(section) ==
  LET s == FirstAt(section, 1, SummaryLines)
      commentBlocks == split(section, BlockquoteClose)
  IN IF s = 0 THEN <<>>
     ELSE IF section[s] \in {SummaryCommits, SummaryIgnored} THEN <<>>
     ELSE flatten([i \in 1 .. Len(commentBlocks) |->
                     blockEntries(summaryText(section[s]), commentBlocks[i])])

\* the body of the loop over the fragments of a review body: a fragment
\* without '</details>', without a summary tag, or whose summary has 'Commits'
\* or 'Files ignored' in it is skipped
sectionEntries(section) ==
  LET s == FirstAt(section, 1, SummaryLines)
      commentBlocks == split(section, BlockquoteClose)
  IN IF FirstAt(section, 1, {DetailsClose}) = 0 THEN <<>>
     ELSE IF s = 0 THEN <<>>
     ELSE IF section[s] \in {SummaryCommits, SummaryIgnored} THEN <<>>
     ELSE flatten([i \in 1 .. Len(commentBlocks) |->
                     blockEntries(summaryText(section[s]), commentBlocks[i])])

\* parseCoderabbitReviewBodyDetailed (the duplicate count, the summary, the
\* configuration and the profile, which no line of a body holds, are left
\* out)
parseCoderabbitReviewBodyDetailed(body) ==
  LET commentSections == split(body, DetailsOpen)
  IN [actionable_comments |-> actionableCount(body),
      nitpick_comments |-> nitpickCount(body),
      comments |-> flatten([i \in 1 .. Len(commentSections) |->
                              sectionEntries(commentSections[i])]),
      files_reviewed |-> filesReviewed(body)]

\* getReviewDetails: the record built from the review that was found
reviewDetails(targetReview) ==
  LET parsed == parseCoderabbitReviewBodyDetailed(targetReview.body)
  IN [id |-> targetReview.id,
      body |-> targetReview.body,
      parsed_content |->
        [actionable_comments |-> parsed.actionable_comments,
         nitpick_comments |-> parsed.nitpick_comments,
         comments |-> parsed.comments],
      files_reviewed |-> parsed.files_reviewed]

(* --------------- the comment functions, applied to an input ------------ *)

PathSet == {Paths[i] : i \in 1 .. Len(Paths)}

\* the raw comments given to the parsers: every pair of anchors, every body
ParserComments ==
  {RawComment(1, BotLogin, 1, Paths[1], line, startLine, body) :
     line \in LineAnchors, startLine \in LineAnchors, body \in Bodies}

\* the orders in which the ids of a comment set can come
IdOrders ==
  { s \in UNION { [1 .. n -> 1 .. MaxComments] : n \in 1 .. MaxComments } :
      Distinct(s) }

\* where the comments of a set sit: a path and a line anchor for each
Placements(n) == [1 .. n -> [path : PathSet, line : LineAnchors]]

\* a comment set of one pull request: ids are unique
CommentSet(ids, at) ==
  [i \in 1 .. Len(ids) |->
     RawComment(ids[i], BotLogin, 1, at[i].path, at[i].line, 0, <<>>)]

CommentFunctions ==
  {"parseCoderabbitComment", "commentDetails", "findRelatedComments",
   "blockSeverity"}

Returns(value) == [kind |-> "returned", value |-> value]

InitComment ==
  /\ tool \in CommentFunctions
  /\ IF tool = "findRelatedComments"
       THEN \E ids \in IdOrders : \E at \in Placements(Len(ids)) :
              input = [allComments |-> CommentSet(ids, at)]
     ELSE IF tool = "blockSeverity"
       THEN input \in [block : Bodies]
       ELSE input \in [comment : ParserComments]
  /\ pc = "apply"
  /\ prs = <<>>
  /\ idx = 0
  /\ located = Null
  /\ resolutionMethod = ""
  /\ resultMessage = <<>>
  /\ log = <<>>
  /\ outcome = NoOutcome

\* coderabbitComments.map(parseCoderabbitComment), one comment
ApplyParseCoderabbitComment ==
  /\ pc = "apply"
  /\ tool = "parseCoderabbitComment"
  /\ outcome' = Returns(parseCoderabbitComment(input.comment))
  /\ pc' = "done"
  /\ UNCHANGED <<tool, input, prs, idx, located, resolutionMethod,
                 resultMessage, log>>

\* getCommentDetails from the located comment on, the comment being the
\* only one of its pull request
ApplyCommentDetails ==
  /\ pc = "apply"
  /\ tool = "commentDetails"
  /\ outcome' = Returns(commentDetails(input.comment, <<input.comment>>))
  /\ pc' = "done"
  /\ UNCHANGED <<tool, input, prs, idx, located, resolutionMethod,
                 resultMessage, log>>

\* findRelatedComments(targetComment, allPRComments), with each comment of
\* the set as the target in turn
ApplyFindRelatedComments ==
  /\ pc = "apply"
  /\ tool = "findRelatedComments"
  /\ outcome' = Returns([i \in 1 .. Len(input.allComments) |->
                  findRelatedComments(input.allComments[i],
                                      input.allComments)])
  /\ pc' = "done"
  /\ UNCHANGED <<tool, input, prs, idx, located, resolutionMethod,
                 resultMessage, log>>

\* parseCoderabbitReviewBodyDetailed: the severity given to one block
ApplyBlockSeverity ==
  /\ pc = "apply"
  /\ tool = "blockSeverity"
  /\ outcome' = Returns([severity |-> BlockSeverity(input.block)])
  /\ pc' = "done"
  /\ UNCHANGED <<tool, input, prs, idx, located, resolutionMethod,
                 resultMessage, log>>

NextComment ==
  \/ ApplyBlockSeverity
  \/ ApplyParseCoderabbitComment
  \/ ApplyCommentDetails
  \/ ApplyFindRelatedComments

SpecComment == InitComment /\ [][NextComment]_vars

\* a comment has been parsed, by either parser
Parsed ==
  /\ pc = "done"
  /\ tool \in {"parseCoderabbitComment", "commentDetails"}

(* ------------------------------ C15 ------------------------------------ *)

\* C15: the line range of a parsed comment is its two anchors unchanged when
\* both are present, even when the start-line is the greater; both ends are
\* the end/line anchor when only that one is present; and it is {1, 1} when
\* the end/line anchor is absent.
C15_LineRangeDerivation ==
  Parsed =>
    LET c == input.comment
        r == outcome.value.line_range
    IN /\ (c.original_start_line # 0 /\ c.original_line # 0) =>
             r = [start |-> c.original_start_line, end |-> c.original_line]
       /\ (c.original_start_line = 0 /\ c.original_line # 0) =>
             r = [start |-> c.original_line, end |-> c.original_line]
       /\ c.original_line = 0 => r = [start |-> 1, end |-> 1]

C15_Witness ==
  /\ Parsed
  /\ tool = "parseCoderabbitComment"
  /\ input.comment.original_start_line > input.comment.original_line
  /\ input.comment.original_line > 0
  /\ outcome.value.line_range.start > outcome.value.line_range.end

(* ------------------------------ C16 ------------------------------------ *)

\* C16, as stated: every parsed comment has line_range.start >= 1,
\* line_range.end >= 1 and line_range.start <= line_range.end.
C16_RangeOrdered ==
  Parsed =>
    /\ outcome.value.line_range.start >= 1
    /\ outcome.value.line_range.end >= 1
    /\ outcome.value.line_range.start <= outcome.value.line_range.end

\* C16, amended: every parsed comment has line_range.start >= 1 and
\* line_range.end >= 1, and line_range.start <= line_range.end unless the raw
\* comment carries a start-line anchor greater than its end-line anchor; then
\* the range is the two anchors as given, start > end.
C16_RangeAtLeastOne ==
  Parsed =>
    LET c == input.comment
        r == outcome.value.line_range
    IN /\ r.start >= 1
       /\ r.end >= 1
       /\ IF c.original_line # 0 /\ c.original_start_line > c.original_line
            THEN r.start > r.end
            ELSE r.start <= r.end

C16_Witness ==
  /\ Parsed
  /\ tool = "commentDetails"
  /\ input.comment.original_line = 1
  /\ input.comment.original_start_line > ProximityWindow
  /\ outcome.value.line_range.start > ProximityWindow
  /\ outcome.value.line_range.end = 1

(* ------------------------------ C19 ------------------------------------ *)

\* the lines that carry the marker of a rule, bare or italicized
MarkerLines(rule) ==
  CASE rule = "potential-issue" -> {PotentialIssue, PotentialIssueItalic}
    [] rule = "refactor-suggestion" ->
         {RefactorSuggestion, RefactorSuggestionItalic}
    [] rule = "nitpick" -> {Nitpick}
    [] rule = "security" -> {Security}

\* the marker of a rule appears somewhere in the text
Marked(body, rule) == \E i \in 1 .. Len(body) : body[i] \in MarkerLines(rule)

\* the rules in their order, with the pair each one gives
Rules ==
  << [rule |-> "potential-issue", severity |-> "warning",
      category |-> "Potential Issue"],
     [rule |-> "refactor-suggestion", severity |-> "suggestion",
      category |-> "Refactor Suggestion"],
     [rule |-> "nitpick", severity |-> "info", category |-> "Nitpick"],
     [rule |-> "security", severity |-> "error", category |-> "Security"] >>

\* C19: the severity and category of a parsed comment are those of the first
\* rule, in the order potential-issue, refactor-suggestion, nitpick, security,
\* whose marker (bare or italicized) appears anywhere in the body, and
\* (info, 'General') when no marker appears; the severity is one of error,
\* warning, info, suggestion.
C19_FirstMatchingRule ==
  Parsed =>
    LET body == input.comment.body
        got == outcome.value
    IN /\ got.severity \in {"error", "warning", "info", "suggestion"}
       /\ \A k \in 1 .. Len(Rules) :
            (Marked(body, Rules[k].rule)
               /\ \A j \in 1 .. k - 1 : ~Marked(body, Rules[j].rule))
            => /\ got.severity = Rules[k].severity
               /\ got.category = Rules[k].category
       /\ (\A k \in 1 .. Len(Rules) : ~Marked(body, Rules[k].rule))
            => got.severity = "info" /\ got.category = "General"

\* an italicized potential-issue marker after a refactor-suggestion marker
C19_Witness ==
  /\ Parsed
  /\ tool = "commentDetails"
  /\ input.comment.body = <<RefactorSuggestion, PotentialIssueItalic>>
  /\ outcome.value.severity = "warning"
  /\ outcome.value.category = "Potential Issue"

(* ------------------------------ C20 ------------------------------------ *)

\* a text has been given its severity, by any of the three classifications
Classified ==
  /\ pc = "done"
  /\ tool \in {"parseCoderabbitComment", "commentDetails", "blockSeverity"}

ClassifiedText ==
  IF tool = "blockSeverity" THEN input.block ELSE input.comment.body

\* a security marker and a nitpick marker, and no marker of the two rules
\* that come first
SecurityAndNitpick(body) ==
  /\ Marked(body, "security")
  /\ Marked(body, "nitpick")
  /\ ~Marked(body, "potential-issue")
  /\ ~Marked(body, "refactor-suggestion")

\* C20, as stated: a body with both a security marker and a nitpick marker,
\* and no potential-issue or refactor-suggestion marker, is classified with
\* severity error.
C20_SecurityWins ==
  (Classified /\ SecurityAndNitpick(ClassifiedText))
    => outcome.value.severity = "error"

\* C20, amended: a body with both a security marker and a nitpick marker, and
\* no potential-issue or refactor-suggestion marker, is classified with
\* severity info (and, for a comment, category 'Nitpick'): the nitpick rule is
\* tested before the security rule, in whatever order the markers appear.
C20_NitpickWins ==
  (Classified /\ SecurityAndNitpick(ClassifiedText))
    => /\ outcome.value.severity = "info"
       /\ tool # "blockSeverity" => outcome.value.category = "Nitpick"

C20_Witness ==
  /\ Classified
  /\ tool = "parseCoderabbitComment"
  /\ input.comment.body = <<Security, Nitpick>>
  /\ outcome.value.severity = "info"
  /\ outcome.value.category = "Nitpick"

(* ------------------------------ C17 ------------------------------------ *)

\* findRelatedComments has been applied to every comment of a set
Correlated == pc = "done" /\ tool = "findRelatedComments"

\* comment b is another comment on the same file as a, its anchor at most 10
\* lines from a's; original_line is 0 when the anchor is missing
Near(a, b) ==
  /\ a.id # b.id
  /\ a.path = b.path
  /\ a.original_line - b.original_line <= ProximityWindow
  /\ b.original_line - a.original_line <= ProximityWindow

\* C17: the related ids computed for a target are exactly the ids of the
\* other comments of the set on the same path whose anchor is at most 10
\* lines from the target's (a missing anchor counting as line 0), each once,
\* in the order of the set.
C17_RelatedExactlyNear ==
  Correlated =>
    LET all == input.allComments IN
    \A i \in 1 .. Len(all) :
      LET related == outcome.value[i]
          near == {j \in 1 .. Len(all) : Near(all[i], all[j])}
      IN /\ Len(related) = Cardinality(near)
         /\ \A j \in near : \E p \in 1 .. Len(related) : related[p] = all[j].id
         /\ \A p \in 1 .. Len(related), q \in 1 .. Len(related) :
              p < q =>
                \E j \in near, k \in near :
                  j < k /\ all[j].id = related[p] /\ all[k].id = related[q]

\* a target on line 1, with a comment 10 lines away that is related and one
\* 11 lines away that is not
C17_Witness ==
  /\ Correlated
  /\ Len(input.allComments) >= 3
  /\ \E i, j, k \in 1 .. Len(input.allComments) :
       LET all == input.allComments IN
       /\ all[i].path = all[j].path /\ all[i].path = all[k].path
       /\ all[i].original_line = 1
       /\ all[j].original_line = 1 + ProximityWindow
       /\ all[k].original_line = 2 + ProximityWindow
       /\ outcome.value[i] = <<all[j].id>>

(* ------------------------------ C18 ------------------------------------ *)

InSeq(x, s) == \E p \in 1 .. Len(s) : s[p] = x

\* C18: for two distinct comments A and B of one set, B's id is among the
\* related ids computed for A exactly when A's id is among those computed
\* for B.
C18_CorrelationSymmetric ==
  Correlated =>
    LET all == input.allComments IN
    \A i \in 1 .. Len(all), j \in 1 .. Len(all) :
      i # j =>
        (InSeq(all[j].id, outcome.value[i])
           <=> InSeq(all[i].id, outcome.value[j]))

\* A and B related in both directions, a third comment related to neither
C18_Witness ==
  /\ Correlated
  /\ \E i, j, k \in 1 .. Len(input.allComments) :
       LET all == input.allComments IN
       /\ i # j
       /\ all[i].original_line > all[j].original_line
       /\ InSeq(all[j].id, outcome.value[i])
       /\ InSeq(all[i].id, outcome.value[j])
       /\ outcome.value[k] = <<>>

(***************************************************************************)
(* The reading tools: getCoderabbitReviews (get-reviews.ts),               *)
(* getReviewDetails (get-review-details.ts), getReviewComments             *)
(* (get-comments.ts) and getCommentDetails (get-comment-details.ts).  Each *)
(* validates its input outside its try, then asks the remote side; what    *)
(* is thrown inside the try is rethrown with the tool's prefix.  The       *)
(* variable located holds the locals of the tool: the list it fetched      *)
(* (all) and, for getCommentDetails, the comment it found (comment).       *)
(***************************************************************************)

ReadTools ==
  {"getCoderabbitReviews", "getReviewDetails", "getReviewComments",
   "getCommentDetails"}

\* an optional numeric argument that is left out has integer part 0 and
\* fractional part 0
ReadInputs(t) ==
  CASE t = "getCoderabbitReviews" ->
         [owner : {"", "acme"}, repo : {"", "widgets"},
          pullNumber : 0 .. 1, pullNumberFrac : Fractions]
    [] t = "getReviewDetails" ->
         [owner : {"", "acme"}, repo : {"", "widgets"},
          pullNumber : 0 .. 1, pullNumberFrac : Fractions,
          reviewId : 0 .. MaxId, reviewIdFrac : Fractions]
    [] t = "getReviewComments" ->
         { in \in [owner : {"", "acme"}, repo : {"", "widgets"},
                   pullNumber : 0 .. 1, pullNumberFrac : Fractions,
                   reviewIdGiven : BOOLEAN,
                   reviewId : 0 .. MaxId, reviewIdFrac : Fractions] :
             ~in.reviewIdGiven => in.reviewId = 0 /\ in.reviewIdFrac = 0 }
    [] t = "getCommentDetails" ->
         [owner : {"", "acme"}, repo : {"", "widgets"},
          commentId : 0 .. MaxId, commentIdFrac : Fractions]

GetCoderabbitReviewsSchema(in) ==
  /\ in.owner # ""
  /\ in.repo # ""
  /\ PositiveInt(in.pullNumber, in.pullNumberFrac)

GetReviewDetailsSchema(in) ==
  /\ in.owner # ""
  /\ in.repo # ""
  /\ PositiveInt(in.pullNumber, in.pullNumberFrac)
  /\ PositiveInt(in.reviewId, in.reviewIdFrac)

GetReviewCommentsSchema(in) ==
  /\ in.owner # ""
  /\ in.repo # ""
  /\ PositiveInt(in.pullNumber, in.pullNumberFrac)
  /\ in.reviewIdGiven => PositiveInt(in.reviewId, in.reviewIdFrac)

GetCommentDetailsSchema(in) ==
  /\ in.owner # ""
  /\ in.repo # ""
  /\ PositiveInt(in.commentId, in.commentIdFrac)

\* the first request of each tool
FirstRequest(t) ==
  CASE t = "getCoderabbitReviews" -> "reviews"
    [] t = "getReviewDetails" -> "review"
    [] t = "getReviewComments" -> "comments"
    [] t = "getCommentDetails" -> "recentPRs"

\* the rethrow of the tool's catch
Rethrown(prefix, error) == Raised(<<prefix>> \o error)

(* ---------------------- what the remote side holds --------------------- *)

\* the ids of the items of one answer, in their order: ids are unique
UniqueIds ==
  { s \in UNION { [1 .. n -> 1 .. MaxId] : n \in 0 .. MaxId } : Distinct(s) }

\* GitHubReview
Review(id, login) ==
  [id |-> id, login |-> login, body |-> <<"Actionable comments posted: 1">>]

\* the reviews of a pull request: review ids are unique
ReviewLists ==
  UNION { { [i \in 1 .. Len(ids) |-> Review(ids[i], who[i])] :
              who \in [1 .. Len(ids) -> Logins] }
          : ids \in UniqueIds }

\* where a listed review comment sits: path, original_line,
\* original_start_line
Positions ==
  { [path |-> Paths[2], line |-> 1, startLine |-> 0],
    [path |-> Paths[1], line |-> 2 + ProximityWindow,
     startLine |-> 1 + ProximityWindow],
    [path |-> Paths[1], line |-> 1, startLine |-> 0] }

\* what the listed review comments can be: any author, any parent review
ListedAs(n) ==
  [1 .. n -> [login : Logins, review : 1 .. MaxId, at : Positions]]

\* the review comments of a pull request, as getReviewComments reads them:
\* comment ids are unique
ListedComments(ids, c) ==
  [i \in 1 .. Len(ids) |->
     RawComment(ids[i], c[i].login, c[i].review, c[i].at.path, c[i].at.line,
                c[i].at.startLine, <<>>)]

\* the review comments of a pull request, as getCommentDetails reads them:
\* any author, comment ids unique, all on line 1 of one file
SearchedComments ==
  UNION { { [i \in 1 .. Len(ids) |->
               RawComment(ids[i], who[i], 1, Paths[1], 1, 0, <<>>)] :
              who \in [1 .. Len(ids) -> Logins] }
          : ids \in UniqueIds }

(* ------------------------- getReviewComments --------------------------- *)

\* a.path.localeCompare(b.path)
localeCompare(a, b) ==
  (CHOOSE i \in 1 .. Len(Paths) : Paths[i] = a)
    - (CHOOSE i \in 1 .. Len(Paths) : Paths[i] = b)

\* a comparator that looks at the path only
compareComments_PathOnly(a, b) ==
  IF a.path # b.path THEN localeCompare(a.path, b.path) ELSE 0

\* the comparator given to enrichedComments.sort
compareComments(a, b) ==
  IF a.path # b.path
    THEN localeCompare(a.path, b.path)
    ELSE a.line_range.start - b.line_range.start

RECURSIVE sort(_)
\* Array.prototype.sort with compareComments: a stable sort
sort(s) ==
  IF s = <<>> THEN <<>>
  ELSE LET rest == sort(SubSeq(s, 1, Len(s) - 1))
           x == s[Len(s)]
           \* x goes after the last element that does not come after it
           k == Cardinality({i \in 1 .. Len(rest) :
                               compareComments(rest[i], x) <= 0})
       IN SubSeq(rest, 1, k) \o <<x>> \o SubSeq(rest, k + 1, Len(rest))

\* getReviewComments: from the fetched comments to the returned list
enrichedComments(in, allComments) ==
  LET coderabbitComments ==
        SelectSeq(allComments, LAMBDA comment : comment.login = BotLogin)
      ofReview ==
        IF in.reviewIdGiven
          THEN SelectSeq(coderabbitComments,
                 LAMBDA comment : comment.pull_request_review_id = in.reviewId)
          ELSE coderabbitComments
  IN sort([i \in 1 .. Len(ofReview) |-> parseCoderabbitComment(ofReview[i])])

\* Schema.parse(input) of the reading tools, outside the try of the tool
ValidateRead ==
  /\ pc = "validateRead"
  /\ LET accepted ==
           CASE tool = "getCoderabbitReviews" ->
                  GetCoderabbitReviewsSchema(input)
             [] tool = "getReviewDetails" -> GetReviewDetailsSchema(input)
             [] tool = "getReviewComments" -> GetReviewCommentsSchema(input)
             [] tool = "getCommentDetails" -> GetCommentDetailsSchema(input)
     IN IF accepted
          THEN pc' = FirstRequest(tool) /\ outcome' = outcome
          ELSE pc' = "done" /\ outcome' = Raised(<<"ZodError">>)
  /\ UNCHANGED <<tool, input, prs, idx, located, resolutionMethod,
                 resultMessage, log>>

\* getReviewComments, from the answer of getPullRequestComments on
ReviewCommentsAnswered(resp) ==
  LET r == makeRequest(resp) IN
  /\ log' = Append(log, Call("getPullRequestComments", "read",
                             input.pullNumber, "", resp.status, FALSE))
  /\ IF r.ok
       THEN /\ located' = [all |-> r.value]
            /\ outcome' = Returns(enrichedComments(input, r.value))
       ELSE /\ located' = located
            /\ outcome' = Rethrown("Failed to get review comments: ", r.error)

\* getReviewComments, from githubClient.getPullRequestComments on
GetReviewComments ==
  /\ pc = "comments"
  /\ \/ \E ids \in UniqueIds : \E c \in ListedAs(Len(ids)) :
          ReviewCommentsAnswered([status |-> HttpOk,
                                  body |-> ListedComments(ids, c)])
     \/ \E status \in ErrorStatuses :
          ReviewCommentsAnswered([status |-> status, body |-> <<>>])
  /\ pc' = "done"
  /\ UNCHANGED <<tool, input, prs, idx, resolutionMethod, resultMessage>>

(* ---------------- getCoderabbitReviews, getReviewDetails --------------- *)

\* getCoderabbitReviews, from githubMcp.get_pull_request_reviews on
GetCoderabbitReviews ==
  /\ pc = "reviews"
  /\ \E resp \in Responses(ReviewLists) :
       LET r == makeRequest(resp)
           coderabbitReviews ==
             SelectSeq(r.value, LAMBDA review : review.login = BotLogin)
       IN
       /\ log' = Append(log, Call("get_pull_request_reviews", "read",
                                  input.pullNumber, "", resp.status, FALSE))
       /\ IF r.ok
            THEN /\ located' = [all |-> r.value]
                 /\ outcome' =
                      Returns([i \in 1 .. Len(coderabbitReviews) |->
                                 [id |-> coderabbitReviews[i].id,
                                  body |-> coderabbitReviews[i].body]])
            ELSE /\ located' = located
                 /\ outcome' = Rethrown("Failed to get CodeRabbit reviews: ",
                                        r.error)
  /\ pc' = "done"
  /\ UNCHANGED <<tool, input, prs, idx, resolutionMethod, resultMessage>>

\* reviews.find that looks at the id only
findReview_AnyAuthor(reviews, reviewId) ==
  IF \E i \in 1 .. Len(reviews) : reviews[i].id = reviewId
    THEN reviews[CHOOSE i \in 1 .. Len(reviews) :
                   /\ reviews[i].id = reviewId
                   /\ \A j \in 1 .. i - 1 : reviews[j].id # reviewId]
    ELSE Null

\* reviews.find(review => review.id === reviewId &&
\*                        review.user.login === 'coderabbitai[bot]')
findReview(reviews, reviewId) ==
  LET match(i) == reviews[i].id = reviewId /\ reviews[i].login = BotLogin
  IN IF \E i \in 1 .. Len(reviews) : match(i)
       THEN reviews[CHOOSE i \in 1 .. Len(reviews) :
                      match(i) /\ \A j \in 1 .. i - 1 : ~match(j)]
       ELSE Null

ReviewNotFoundMessage(reviewId, pullNumber) ==
  <<"CodeRabbit review with ID ", ToString(reviewId), " not found in PR #",
    ToString(pullNumber)>>

\* getReviewDetails, from githubClient.getPullRequestReviews on
GetReviewDetails ==
  /\ pc = "review"
  /\ \E resp \in Responses(ReviewLists) :
       LET r == makeRequest(resp)
           targetReview == IF r.ok THEN findReview(r.value, input.reviewId)
                                   ELSE Null
       IN
       /\ log' = Append(log, Call("getPullRequestReviews", "read",
                                  input.pullNumber, "", resp.status, FALSE))
       /\ IF ~r.ok
            THEN /\ located' = located
                 /\ outcome' = Rethrown("Failed to get review details: ",
                                        r.error)
          ELSE IF targetReview = Null
            THEN /\ located' = [all |-> r.value]
                 /\ outcome' = Rethrown("Failed to get review details: ",
                        ReviewNotFoundMessage(input.reviewId,
                                              input.pullNumber))
          ELSE /\ located' = [all |-> r.value]
               /\ outcome' = Returns(reviewDetails(targetReview))
  /\ pc' = "done"
  /\ UNCHANGED <<tool, input, prs, idx, resolutionMethod, resultMessage>>

(* -------------------------- getCommentDetails -------------------------- *)

CommentNotFoundMessage(commentId) ==
  <<"Comment with ID ", ToString(commentId),
    " not found in recent pull requests">>

NotFromCodeRabbitMessage(commentId) ==
  <<"Comment ", ToString(commentId), " is not from CodeRabbit AI">>

\* comments.find((c) => c.id === commentId)
findComment(comments, commentId) ==
  IF \E i \in 1 .. Len(comments) : comments[i].id = commentId
    THEN comments[CHOOSE i \in 1 .. Len(comments) :
                    /\ comments[i].id = commentId
                    /\ \A j \in 1 .. i - 1 : comments[j].id # commentId]
    ELSE Null

\* getCommentDetails after its loop, without the check of the author
AfterSearch_NoAuthorCheck(in, targetComment, allPRComments) ==
  IF targetComment = Null
    THEN Rethrown("Failed to get comment details: ",
                  CommentNotFoundMessage(in.commentId))
    ELSE Returns(commentDetails(targetComment, allPRComments))

\* getCommentDetails after its loop: the two throws, or the record
AfterSearch(in, targetComment, allPRComments) ==
  IF targetComment = Null
    THEN Rethrown("Failed to get comment details: ",
                  CommentNotFoundMessage(in.commentId))
  ELSE IF targetComment.login # BotLogin
    THEN Rethrown("Failed to get comment details: ",
                  NotFromCodeRabbitMessage(in.commentId))
  ELSE Returns(commentDetails(targetComment, allPRComments))

\* getCommentDetails: githubMcp.list_pull_requests
ListRecentPRs ==
  /\ pc = "recentPRs"
  /\ \E resp \in Responses(PRListings) :
       LET r == makeRequest(resp) IN
       /\ log' = Append(log, Call("list_pull_requests", "read", 0, "",
                                  resp.status, FALSE))
       /\ IF ~r.ok
            THEN /\ pc' = "done"
                 /\ outcome' = Rethrown("Failed to get comment details: ",
                                        r.error)
                 /\ UNCHANGED <<prs, idx, located>>
          ELSE IF r.value = <<>>
            THEN /\ pc' = "done"
                 /\ outcome' = AfterSearch(input, Null, <<>>)
                 /\ prs' = r.value
                 /\ located' = [comment |-> Null, all |-> <<>>]
                 /\ UNCHANGED idx
          ELSE /\ pc' = "search"
               /\ prs' = r.value
               /\ idx' = 1
               /\ located' = [comment |-> Null, all |-> <<>>]
               /\ UNCHANGED outcome
  /\ UNCHANGED <<tool, input, resolutionMethod, resultMessage>>

\* getCommentDetails: one turn of the loop over recentPRs, and what follows
\* the loop when it ends
SearchPullRequest ==
  /\ pc = "search"
  /\ \E resp \in Responses(SearchedComments) :
       LET pr == prs[idx]
           r == makeRequest(resp)
           allPRComments == IF r.ok THEN r.value ELSE located.all
           targetComment == IF r.ok THEN findComment(r.value, input.commentId)
                                    ELSE Null
           hit == r.ok /\ \E i \in 1 .. Len(resp.body) :
                             resp.body[i].id = input.commentId
           author == IF hit
                       THEN resp.body[CHOOSE i \in 1 .. Len(resp.body) :
                              resp.body[i].id = input.commentId].login
                       ELSE ""
       IN
       /\ log' = Append(log, Call("get_pull_request_comments", "read", pr,
                                  author, resp.status, hit))
       /\ located' = [comment |-> targetComment, all |-> allPRComments]
       /\ IF targetComment = Null /\ idx < Len(prs)
            THEN /\ idx' = idx + 1
                 /\ UNCHANGED <<pc, outcome>>
            ELSE /\ pc' = "done"
                 /\ outcome' = AfterSearch(input, targetComment,
                                           allPRComments)
                 /\ UNCHANGED idx
  /\ UNCHANGED <<tool, input, prs, resolutionMethod, resultMessage>>

(* ------------------------- all six tools ------------------------------- *)

InitRead ==
  /\ tool \in ReadTools
  /\ input \in ReadInputs(tool)
  /\ pc = "validateRead"
  /\ prs = <<>>
  /\ idx = 0
  /\ located = Null
  /\ resolutionMethod = ""
  /\ resultMessage = <<>>
  /\ log = <<>>
  /\ outcome = NoOutcome

NextRead ==
  \/ ValidateRead
  \/ GetCoderabbitReviews
  \/ GetReviewDetails
  \/ GetReviewComments
  \/ ListRecentPRs
  \/ SearchPullRequest

InitTools == Init \/ InitRead

NextTools == Next \/ NextRead

SpecTools == InitTools /\ [][NextTools]_vars

(* ------------------------------ C11 ------------------------------------ *)

\* the numeric argument f of an input is not a positive integer
BadNumber(in, f, frac) == f \in DOMAIN in /\ (in[frac] # 0 \/ in[f] <= 0)

\* an input that fails validation: an empty owner or repo, a pull number,
\* review id or comment id that is not a positive integer (a review id that
\* is left out where it is optional is not an argument), or a resolution
\* outside the three kinds
Malformed(in) ==
  \/ in.owner = ""
  \/ in.repo = ""
  \/ BadNumber(in, "pullNumber", "pullNumberFrac")
  \/ BadNumber(in, "commentId", "commentIdFrac")
  \/ /\ "reviewIdGiven" \in DOMAIN in => in.reviewIdGiven
     /\ BadNumber(in, "reviewId", "reviewIdFrac")
  \/ /\ "resolution" \in DOMAIN in
     /\ in.resolution \notin {"addressed", "wont_fix", "not_applicable"}

\* C11: in each of the six tools an input that fails validation is rejected
\* (the tool raises) and no request has been made to the remote side.
C11_MalformedRejectedBeforeCalls ==
  Malformed(input) =>
    /\ log = <<>>
    /\ pc \notin {"validate", "validateRead"} =>
         pc = "done" /\ outcome.kind = "raised"

\* getReviewComments rejecting a review id of 1.5
C11_Witness ==
  /\ pc = "done"
  /\ tool = "getReviewComments"
  /\ input.owner # "" /\ input.repo # ""
  /\ input.pullNumber = 1 /\ input.pullNumberFrac = 0
  /\ input.reviewIdGiven /\ input.reviewId = 1 /\ input.reviewIdFrac # 0
  /\ outcome.kind = "raised"
  /\ log = <<>>

(* ------------------------------ C12 ------------------------------------ *)

\* the fetches of getCommentDetails that held the requested id
DetailHits ==
  {i \in 1 .. Len(log) :
     log[i].call = "get_pull_request_comments" /\ log[i].hit}

\* C12: when getCommentDetails is over and the requested id was in none of
\* the comment lists it fetched, or the comment it found there is not
\* written by the bot, it has raised an error and returned no record.
C12_DetailsOnlyOfBotComment ==
  (/\ pc = "done"
   /\ tool = "getCommentDetails"
   /\ \/ DetailHits = {}
      \/ \E i \in DetailHits : log[i].content # BotLogin)
    => outcome.kind = "raised"

\* the comment is found in the second pull request, written by another user
C12_Witness ==
  /\ pc = "done"
  /\ tool = "getCommentDetails"
  /\ Len(log) = 3
  /\ log[3].hit /\ log[3].content = "octocat"
  /\ outcome.kind = "raised"
  /\ Embeds(<<" is not from CodeRabbit AI">>, outcome.error)

(* ------------------------------ C13 ------------------------------------ *)

\* getReviewDetails is over and the review list was fetched
ReviewsFetched ==
  /\ pc = "done"
  /\ tool = "getReviewDetails"
  /\ log # <<>>
  /\ log[1].status = HttpOk

\* C13: when the fetched review list holds no review with both the requested
\* id and the bot as author, getReviewDetails raises a not-found error and
\* returns nothing; a review with that id by another author does not count.
C13_ReviewNotFound ==
  (/\ ReviewsFetched
   /\ ~\E i \in 1 .. Len(located.all) :
         /\ located.all[i].id = input.reviewId
         /\ located.all[i].login = BotLogin)
    => /\ outcome.kind = "raised"
       /\ Embeds(<<"CodeRabbit review with ID ", ToString(input.reviewId),
                   " not found in PR #">>, outcome.error)

\* the requested id belongs to a review written by another user
C13_Witness ==
  /\ ReviewsFetched
  /\ \E i \in 1 .. Len(located.all) :
       /\ located.all[i].id = input.reviewId
       /\ located.all[i].login # BotLogin
  /\ outcome.kind = "raised"

(* ------------------------------ C14 ------------------------------------ *)

\* getReviewComments is over and the comment list was fetched
CommentsFetched ==
  /\ pc = "done"
  /\ tool = "getReviewComments"
  /\ log # <<>>
  /\ log[1].status = HttpOk

\* path p comes before path q
PathBefore(p, q) ==
  \E i \in 1 .. Len(Paths), j \in 1 .. Len(Paths) :
    i < j /\ Paths[i] = p /\ Paths[j] = q

\* C14: the list returned by getReviewComments has exactly one record for
\* each fetched comment written by the bot (and, when a review id is given,
\* belonging to that review) and no other record; the records are in
\* ascending order of path and, within a path, of line_range.start.
C14_BotCommentsSorted ==
  CommentsFetched =>
    LET all == located.all
        wanted == {i \in 1 .. Len(all) :
                     /\ all[i].login = BotLogin
                     /\ input.reviewIdGiven =>
                          all[i].pull_request_review_id = input.reviewId}
    IN /\ outcome.kind = "returned"
       /\ Len(outcome.value) = Cardinality(wanted)
       /\ \A i \in wanted : \E p \in 1 .. Len(outcome.value) :
            /\ outcome.value[p].id = all[i].id
            /\ outcome.value[p].path = all[i].path
       /\ \A p \in 1 .. Len(outcome.value), q \in 1 .. Len(outcome.value) :
            p < q =>
              \/ PathBefore(outcome.value[p].path, outcome.value[q].path)
              \/ /\ outcome.value[p].path = outcome.value[q].path
                 /\ outcome.value[p].line_range.start
                      <= outcome.value[q].line_range.start

\* two comments of the requested review on one path, fetched with the later
\* line first and returned with the earlier line first
C14_Witness ==
  /\ CommentsFetched
  /\ input.reviewIdGiven
  /\ Len(located.all) = 2
  /\ outcome.kind = "returned"
  /\ Len(outcome.value) = 2
  /\ outcome.value[1].id = located.all[2].id
  /\ outcome.value[1].path = outcome.value[2].path
  /\ outcome.value[1].line_range.start < outcome.value[2].line_range.start

(* ------------------------------ C27 ------------------------------------ *)

\* a write request of the invocation was answered with success
SomeWriteSucceeded ==
  \E i \in 1 .. Len(log) : IsWrite(log[i]) /\ ~Failed(log[i])

\* C27: an outcome of resolveComment or resolveConversation with
\* success = true is reached only when some write request of the invocation
\* (comment, reaction) succeeded; when every write failed, success is false.
C27_SuccessNeedsAWrite ==
  (Returned /\ outcome.success) => SomeWriteSucceeded

(* ------------------------------ C28 ------------------------------------ *)

\* the outcome is the not-found one
ReportsNotFound ==
  /\ Returned
  /\ outcome.success = FALSE
  /\ outcome.resolution_method = "none"
  /\ Embeds(<<" not found in recent pull requests">>, outcome.message)

\* C28: the not-found outcome is reported only when the comments of every
\* listed pull request were fetched successfully and none of the lists holds
\* the id; a failed fetch is not reported as not-found.
C28_NotFoundOnlyAfterFullScan ==
  ReportsNotFound =>
    /\ ListingOk
    /\ Len(Fetches) = Len(prs)
    /\ \A i \in 1 .. Len(Fetches) : ~Failed(Fetches[i]) /\ ~Fetches[i].hit

(* ------------------------------ C30 ------------------------------------ *)

Count(P(_)) == Len(SelectSeq(log, P))

IsListing(e) == e.call = "listPullRequests"

\* the requests made so far stay within the bounds of the tool: one listing,
\* one fetch for each listed pull request at most, each pull request fetched
\* once, one write for resolveComment and four for resolveConversation
CallsBounded ==
  /\ Count(IsListing) <= 1
  /\ Len(Fetches) <= Len(prs)
  /\ \A i \in 1 .. Len(Fetches), j \in 1 .. Len(Fetches) :
       i < j => Fetches[i].arg # Fetches[j].arg
  /\ Count(IsWrite) <= IF tool = "resolveComment" THEN 1 ELSE 4

\* no request of a tier follows a request of a later tier
NoTierRevisited ==
  \A i \in 1 .. Len(log), j \in 1 .. Len(log) :
    (i < j /\ log[i].tier \in ConversationTiers
           /\ log[j].tier \in ConversationTiers)
      => TierRank(log[i].tier) <= TierRank(log[j].tier)

\* C30: when every remote call eventually returns or fails, an invocation of
\* resolveComment or resolveConversation ends with an outcome; it makes one
\* listing, at most one fetch per listed pull request and at most one write
\* (resolveComment) or four writes (resolveConversation), and never goes back
\* to an earlier tier.
C30_TerminatesWithinBounds ==
  /\ [](CallsBounded /\ NoTierRevisited)
  /\ <>(pc = "done" /\ outcome.kind # "pending")

\* resolveConversation ending after four writes
C30_Witness ==
  /\ pc = "done"
  /\ tool = "resolveConversation"
  /\ outcome.kind = "returned"
  /\ Count(IsWrite) = 4
  /\ Len(Fetches) = Len(prs)
  /\ Len(prs) > 1

(* ------------- the parsers of a comment, applied to its text ----------- *)

\* the lines a body is drawn from: those of a body with an AI prompt and
\* fenced blocks, those of a body with a committable suggestion, those of a
\* body of prose
TextFamilies ==
  {{AiPromptIntro, Fence, FenceLang, FenceDiff, Prose, Blank},
   {CommittableIntro, FenceSuggestion, Fence, Prose, Blank},
   {Prose, MoreProse, Blank, PotentialIssueItalic, Addressed, MarkupLine}}

\* the parts of a body with fixes: a committable suggestion, a diff block,
\* a block tagged with a language, a line of prose
FixBlocks ==
  {<<CommittableIntro, FenceSuggestion, Prose, Fence>>,
   <<FenceDiff, MoreProse, Fence>>,
   <<FenceLang, Prose, MoreProse, Fence>>,
   <<Prose>>}

\* a review comment of the bot with the given body
TextComment(body) == RawComment(1, BotLogin, 1, Paths[1], 1, 0, body)

\* most sections in a review body
MaxSections == 2

\* what a section of a review body holds: an AI prompt, an AI prompt in a
\* section of its own, the list of the files, two blocks of a blockquote
SectionContents ==
  {<<AiPromptIntro, Fence, Prose, Fence>>,
   <<DetailsOpen, SummaryPrompt, Blank, Fence, Prose, Fence, DetailsClose>>,
   <<Blank, FileBullet, Blank>>,
   <<FileBullet, MoreProse, BlockquoteClose,
     AiPromptIntro, Fence, Prose, Fence>>}

\* a collapsible section: with or without a summary tag (Blank for none),
\* closed or cut short
Section(summary, content, closed) ==
  <<DetailsOpen>> \o (IF summary = Blank THEN <<>> ELSE <<summary>>)
  \o content \o (IF closed THEN <<DetailsClose>> ELSE <<>>)

Sections ==
  {Section(summary, content, closed) :
     summary \in {Blank, SummaryNitpick, SummaryCommits, SummaryIgnored,
                  SummaryFiles},
     content \in SectionContents,
     closed \in BOOLEAN}

\* the body of a comment held by a closed section of a review body, a
\* bullet with a file path after it
WrappedInSection(body) ==
  <<DetailsOpen, SummaryNitpick>> \o body \o <<FileBullet, DetailsClose>>

\* a review of the bot with the given body
TextReview(body) == [Review(1, BotLogin) EXCEPT !.body = body]

InitText ==
  /\ tool \in {"bothParsers", "reviewDetails"}
  /\ IF tool = "bothParsers"
       THEN \/ input \in [comment : ParserComments]
            \/ \E lines \in TextFamilies : \E n \in 0 .. MaxTextLines :
                 \E body \in [1 .. n -> lines] :
                   input = [comment |-> TextComment(body)]
            \/ \E n \in 0 .. MaxSections : \E parts \in [1 .. n -> FixBlocks] :
                 input = [comment |-> TextComment(flatten(parts))]
       ELSE \/ \E lines \in TextFamilies : \E n \in 0 .. MaxTextLines :
                 \E body \in [1 .. n -> lines] :
                   input = [review |-> TextReview(WrappedInSection(body))]
            \/ \E head \in {<<>>, <<ActionableLine>>} :
                 \E n \in 0 .. MaxSections : \E parts \in [1 .. n -> Sections] :
                   input = [review |-> TextReview(head \o flatten(parts))]
  /\ pc = "apply"
  /\ prs = <<>>
  /\ idx = 0
  /\ located = Null
  /\ resolutionMethod = ""
  /\ resultMessage = <<>>
  /\ log = <<>>
  /\ outcome = NoOutcome

\* the same comment listed by getReviewComments and located by
\* getCommentDetails, the comment being the only one of its pull request
ApplyBothParsers ==
  /\ pc = "apply"
  /\ tool = "bothParsers"
  /\ outcome' = Returns([listed |-> parseCoderabbitComment(input.comment),
                         detailed |-> commentDetails(input.comment,
                                                     <<input.comment>>)])
  /\ pc' = "done"
  /\ UNCHANGED <<tool, input, prs, idx, located, resolutionMethod,
                 resultMessage, log>>

\* getReviewDetails from the review that was found on
ApplyReviewDetails ==
  /\ pc = "apply"
  /\ tool = "reviewDetails"
  /\ outcome' = Returns(reviewDetails(input.review))
  /\ pc' = "done"
  /\ UNCHANGED <<tool, input, prs, idx, located, resolutionMethod,
                 resultMessage, log>>

NextText ==
  \/ ApplyBothParsers
  \/ ApplyReviewDetails

SpecText == InitText /\ [][NextText]_vars

\* both parsers have been applied to a comment
BothParsed == pc = "done" /\ tool = "bothParsers"

(* ------------------------------ C21 ------------------------------------ *)

\* a review body has been parsed
ReviewParsed == pc = "done" /\ tool = "reviewDetails"

\* the entries of the parsed review body
Entries == outcome.value.parsed_content.comments

\* the fence lines of a body after its first line with the given phrase
FencesAfter(body, intros) ==
  {k \in 1 .. Len(body) :
     /\ body[k] \in FenceLines
     /\ FirstAt(body, 1, intros) # 0
     /\ k > FirstAt(body, 1, intros)}

\* the phrase is in the body, and after it there is no fence line, or one
\* fence line that nothing closes
Unfenced(body, intros) ==
  /\ FirstAt(body, 1, intros) # 0
  /\ Cardinality(FencesAfter(body, intros)) <= 1

\* C21: when the body has the AI-prompt phrase (the committable-suggestion
\* phrase) but no fence after it, or a fence that is never closed, the
\* extracted ai_prompt (committable_suggestion) is undefined, in the two
\* parsers of a comment and in every entry of a review body, and the parsing
\* returns.
C21_UnfencedIsUndefined ==
  /\ BothParsed =>
       /\ outcome.kind = "returned"
       /\ Unfenced(input.comment.body, AiPromptLines) =>
            /\ outcome.value.listed.ai_prompt = Undefined
            /\ outcome.value.detailed.ai_prompt = Undefined
       /\ Unfenced(input.comment.body, {CommittableIntro}) =>
            /\ outcome.value.listed.committable_suggestion = Undefined
            /\ outcome.value.detailed.committable_suggestion = Undefined
  /\ ReviewParsed =>
       /\ outcome.kind = "returned"
       /\ Unfenced(input.review.body, AiPromptLines) =>
            \A i \in 1 .. Len(Entries) : Entries[i].ai_prompt = Undefined
       /\ Unfenced(input.review.body, {CommittableIntro}) =>
            \A i \in 1 .. Len(Entries) :
              Entries[i].committable_suggestion = Undefined

\* a suggestion whose fence is opened and never closed has been parsed
C21_Witness ==
  /\ BothParsed
  /\ input.comment.body = <<CommittableIntro, FenceSuggestion, Prose, Prose>>
  /\ outcome.value.listed.committable_suggestion = Undefined

(* ------------------------------ C26 ------------------------------------ *)

RECURSIVE FencedRegions(_, _, _)
\* the fenced regions of a body as Markdown reads it, each the sequence of the
\* lines held between its fences: a fence line opens a region, the next bare
\* fence closes it, and a region left open runs to the end of the body
FencedRegions(body, k, opened) ==
  IF k > Len(body)
    THEN IF opened = 0 THEN {} ELSE {SubSeq(body, opened + 1, Len(body))}
  ELSE IF opened = 0
    THEN FencedRegions(body, k + 1, IF body[k] \in FenceLines THEN k ELSE 0)
  ELSE IF body[k] = Fence
    THEN {SubSeq(body, opened + 1, k - 1)} \cup FencedRegions(body, k + 1, 0)
  ELSE FencedRegions(body, k + 1, opened)

\* lines is a run of consecutive lines of region
WithinRegion(lines, region) ==
  \E at \in 0 .. Len(region) - Len(lines) :
    SubSeq(region, at + 1, at + Len(lines)) = lines

\* the extracted prompt is text of one fenced region of the body
InsideOneFence(prompt, body) ==
  prompt # Undefined =>
    \E region \in FencedRegions(body, 1, 0) :
      WithinRegion(prompt.text, region)

\* C26: a returned ai_prompt lies entirely inside one fenced region of the
\* body, never in the text between the closing fence of one block and the
\* opening fence of a later block.
C26_PromptInsideOneFence ==
  /\ BothParsed =>
       /\ InsideOneFence(outcome.value.listed.ai_prompt, input.comment.body)
       /\ InsideOneFence(outcome.value.detailed.ai_prompt,
                         input.comment.body)
  /\ ReviewParsed =>
       \A i \in 1 .. Len(Entries) :
         InsideOneFence(Entries[i].ai_prompt, input.review.body)

(* ------------------------------ C23 ------------------------------------ *)

\* the first n lines of a sequence, or all of them when there are fewer
FirstLines(lines, n) ==
  SubSeq(lines, 1, IF Len(lines) < n THEN Len(lines) ELSE n)

\* the lines of a comment body that survive the filter of the description
Surviving(body) ==
  SelectSeq(body, LAMBDA line : line \notin DescriptionDrops)

\* the lines of a review section that survive the filter, their markup
\* stripped
SurvivingOfBlock(block) ==
  LET kept == SelectSeq(block, LAMBDA line : line \notin BlockDescriptionDrops)
  IN [i \in 1 .. Len(kept) |-> stripMarkup(kept[i])]

\* the review body is one section of one block
OneBlock(body) ==
  /\ Cardinality({k \in 1 .. Len(body) : body[k] = DetailsOpen}) = 1
  /\ body[1] = DetailsOpen
  /\ FirstAt(body, 1, {BlockquoteClose}) = 0

\* C23 as stated: the description of a single comment joins at most 2 of the
\* surviving lines, that of a review section at most 3.
C23_CapsAsStated ==
  /\ BothParsed =>
       /\ Len(outcome.value.listed.description) <= 2
       /\ Len(outcome.value.detailed.description) <= 2
  /\ ReviewParsed =>
       \A i \in 1 .. Len(Entries) : Len(Entries[i].description) <= 3

\* C23, amended: the description of a single comment is the first 3 of the
\* surviving lines (the fallback text when none survives), in both parsers
\* of a comment; the description of a review section is the first 2 of its
\* surviving lines; lines beyond the cap never contribute.
C23_CapsOfTheCode ==
  /\ BothParsed =>
       LET kept == Surviving(input.comment.body)
           expected == IF kept = <<>> THEN <<"CodeRabbit suggestion">>
                                      ELSE FirstLines(kept, 3)
       IN /\ outcome.value.listed.description = expected
          /\ outcome.value.detailed.description = expected
  /\ ReviewParsed =>
       /\ \A i \in 1 .. Len(Entries) : Len(Entries[i].description) <= 2
       /\ OneBlock(input.review.body) =>
            \A i \in 1 .. Len(Entries) :
              Entries[i].description
                = FirstLines(SurvivingOfBlock(input.review.body), 2)

\* a comment with four surviving lines has been parsed, and its description
\* is the first three
C23_Witness ==
  /\ BothParsed
  /\ Len(Surviving(input.comment.body)) = 4
  /\ outcome.value.listed.description
       = FirstLines(Surviving(input.comment.body), 3)
  /\ input.comment.body[4] # input.comment.body[1]

(* ------------------------------ C24 ------------------------------------ *)

\* the fence lines of a body, in their order
FencesOf(body) == SelectSeq(body, LAMBDA line : line \in FenceLines)

\* every fence that opens a block is closed by a bare fence before another
\* one opens, no block is empty, and each suggestion fence comes right after
\* the phrase that introduces a committable suggestion
WellFenced(body) ==
  /\ Len(FencesOf(body)) % 2 = 0
  /\ \A n \in 1 .. Len(FencesOf(body)) : n % 2 = 0 => FencesOf(body)[n] = Fence
  /\ \A k \in 1 .. Len(body) :
       /\ body[k] \in FenceLines /\ Len(FencesOf(SubSeq(body, 1, k))) % 2 = 1
            => k < Len(body) /\ body[k + 1] \notin FenceLines
       /\ body[k] = FenceSuggestion => k > 1 /\ body[k - 1] = CommittableIntro

RECURSIVE BlocksOpenedBy(_, _, _)
\* the inner contents, trimmed, of the blocks of a well-fenced body that one
\* of the given fences opens, in the order of the body, from line k on
BlocksOpenedBy(body, k, openers) ==
  LET i == FirstAt(body, k, FenceLines)
      j == IF i = 0 THEN 0 ELSE FirstAt(body, i + 1, FenceLines)
  IN IF j = 0 THEN <<>>
     ELSE (IF body[i] \in openers
             THEN <<trim(SubSeq(body, i + 1, j - 1))>> ELSE <<>>)
          \o BlocksOpenedBy(body, j + 1, openers)

C29_ParsersAgree ==
  BothParsed =>
    LET listed == outcome.value.listed
        detailed == outcome.value.detailed
    IN /\ listed.severity = detailed.severity
       /\ listed.category = detailed.category
       /\ listed.description = detailed.description
       /\ listed.ai_prompt = detailed.ai_prompt
       /\ listed.committable_suggestion = detailed.committable_suggestion
       /\ listed.line_range = detailed.line_range
       /\ listed.is_resolved = detailed.is_resolved

\* a resolved comment with an italic marker, markup and prose has been parsed
\* by both parsers
C29_Witness ==
  /\ BothParsed
  /\ input.comment.body
       = <<PotentialIssueItalic, MarkupLine, Prose, Addressed>>
  /\ outcome.value.detailed.severity = "warning"
  /\ outcome.value.detailed.is_resolved
  /\ outcome.value.detailed.description = <<Prose, Addressed>>
  /\ outcome.value.listed.description = <<Prose, Addressed>>

(* ------------------------------ C22 ------------------------------------ *)

\* the lines of run are consecutive lines of body
HasRun(body, run) ==
  \E at \in 0 .. Len(body) - Len(run) :
    SubSeq(body, at + 1, at + Len(run)) = run

\* a closed section marked as nitpick that holds a fenced AI prompt with the
\* text 'Fix the bug', the prompt directly in the section or in a section of
\* its own
NitpickSectionWithPrompt(body) ==
  \/ HasRun(body, <<DetailsOpen, SummaryNitpick, AiPromptIntro,
                    Fence, Prose, Fence, DetailsClose>>)
  \/ HasRun(body, <<DetailsOpen, SummaryNitpick, DetailsOpen, SummaryPrompt,
                    Blank, Fence, Prose, Fence, DetailsClose, DetailsClose>>)

\* the header of the files selected for processing, with the bullet of
\* a/b.js under it
FilesBullet(body) ==
  LET h == FirstAt(body, 1, {SummaryFiles})
  IN /\ h # 0
     /\ h + 3 <= Len(body)
     /\ SubSeq(body, h + 1, h + 3) = <<Blank, FileBullet, Blank>>

\* the body of the round trip
RoundTripBody(body) ==
  /\ FirstAt(body, 1, {ActionableLine}) # 0
  /\ NitpickSectionWithPrompt(body)
  /\ FilesBullet(body)

\* C22: a review body with the actionable count 9, a nitpick section that
\* holds a fenced AI prompt 'Fix the bug' and the bullet of a/b.js under the
\* files selected is parsed to the actionable count 9, the files reviewed
\* a/b.js and nothing else, and an entry of severity info whose ai_prompt is
\* 'Fix the bug'.
C22_RoundTrip ==
  ReviewParsed /\ RoundTripBody(input.review.body) =>
    /\ outcome.value.parsed_content.actionable_comments = 9
    /\ outcome.value.files_reviewed = <<"a/b.js">>
    /\ \E i \in 1 .. Len(Entries) :
         /\ Entries[i].severity = "info"
         /\ Entries[i].ai_prompt = [text |-> <<Prose>>]

\* the body of the round trip has been parsed, the nitpick section first
C22_Witness ==
  /\ ReviewParsed
  /\ RoundTripBody(input.review.body)
  /\ input.review.body[3] = SummaryNitpick
  /\ outcome.value.files_reviewed = <<"a/b.js">>
  /\ Len(Entries) = 2
  /\ Entries[1].category = summaryText(SummaryNitpick)
  /\ Entries[1].ai_prompt = [text |-> <<Prose>>]

(* ------------------------------ C25 ------------------------------------ *)

\* the fragments of a review body: the text before the first section-opening
\* delimiter and the text after each
Fragments(body) == split(body, DetailsOpen)

\* a fragment that may produce entries: it holds the section-closing
\* delimiter and a summary tag, and its label is not that of the commit list
\* or of the ignored files
Retained(fragment) ==
  /\ \E k \in 1 .. Len(fragment) : fragment[k] = DetailsClose
  /\ \E k \in 1 .. Len(fragment) : fragment[k] \in SummaryLines
  /\ \A k \in 1 .. Len(fragment) :
       (fragment[k] \in SummaryLines
        /\ \A m \in 1 .. k - 1 : fragment[m] \notin SummaryLines)
         => fragment[k] \notin {SummaryCommits, SummaryIgnored}

\* the label of the first summary tag of a retained fragment
LabelOf(fragment) ==
  summaryText(fragment[CHOOSE k \in 1 .. Len(fragment) :
                         /\ fragment[k] \in SummaryLines
                         /\ \A m \in 1 .. k - 1 :
                              fragment[m] \notin SummaryLines])

\* the labels of the retained fragments of a body, in the order of the body
RetainedLabels(body) ==
  LET kept == SelectSeq(Fragments(body), Retained)
  IN [i \in 1 .. Len(kept) |-> LabelOf(kept[i])]

RECURSIVE FollowsLabels(_, _)
\* the categories can be read off the labels from left to right, a label
\* serving any number of consecutive categories
FollowsLabels(categories, labels) ==
  IF categories = <<>> THEN TRUE
  ELSE IF labels = <<>> THEN FALSE
  ELSE IF Head(categories) = Head(labels)
    THEN FollowsLabels(Tail(categories), labels)
  ELSE FollowsLabels(categories, Tail(labels))

\* C25: no entry comes from a fragment that lacks the section-closing
\* delimiter, that has no summary tag, or whose label is the commit list or
\* the ignored files; every entry carries the label of the summary tag of
\* its fragment, and the entries are in the order of the body.
C25_EntriesFollowRetainedSections ==
  ReviewParsed =>
    FollowsLabels([i \in 1 .. Len(Entries) |-> Entries[i].category],
                  RetainedLabels(input.review.body))

\* a body with a section of commits and a nitpick section, each of two
\* blocks, has been parsed: both entries come from the nitpick section
C25_Witness ==
  LET blocks == <<FileBullet, MoreProse, BlockquoteClose,
                  AiPromptIntro, Fence, Prose, Fence>>
  IN /\ ReviewParsed
     /\ input.review.body = Section(SummaryCommits, blocks, TRUE)
                             \o Section(SummaryNitpick, blocks, TRUE)
     /\ RetainedLabels(input.review.body) = <<summaryText(SummaryNitpick)>>
     /\ Len(Entries) = 2
     /\ Entries[1].category = summaryText(SummaryNitpick)
     /\ Entries[1].file_path # Undefined
     /\ Entries[2].category = summaryText(SummaryNitpick)
     /\ Entries[2].ai_prompt # Undefined

====
